---------------------------- MODULE Spec2Model ----------------------------
(*
  A model of the retrieval core of the SEC 10-K question answering pipeline:
    src/src/retrieval/query_router.py          QueryRouter
    src/src/retrieval/hierarchical_retriever.py HierarchicalRetriever
    src/src/retrieval/hybrid_search.py          HybridSearcher

  Strings are sequences of one-character strings, so that lower-casing and
  substring matching are computed as Python computes them.  Scores and
  weights are exact rationals <<numerator, denominator>> in lowest terms;
  floating-point rounding is not modelled.
*)
EXTENDS Integers, Sequences, FiniteSets, TLC

VARIABLES
  \* QueryRouter.route: the query handed in and the dictionary returned
  query, route_info,
  \* HierarchicalRetriever._merge_results: the two lists handed in, the list returned
  dense_in, bm25_in, merged_out,
  \* HybridSearcher: the constructed object, the lists handed to fuse_results,
  \* top_k and the list returned
  searcher, fuse_dense, fuse_bm25, fuse_top_k, fuse_out,
  \* HierarchicalRetriever: the three dense indices and the three corpora it
  \* was constructed with; the position of the retrieve call in progress, its
  \* arguments, the positions the dense search of stage A and of stage B
  \* returned, the list stage B compiled from them before fusion, the results
  \* of the two stages, the exception that ended the call, and the number of
  \* calls of embedding_model.encode so far
  section_index, text_index, table_index,
  section_data, text_data, table_data,
  pc, call, section_hits, dense_hits, compiled, sections, content, error,
  encodes,
  \* MathVerifier: the tolerance it was constructed with; the arguments of
  \* the verify call, the two number lists and the calculation type the call
  \* computed, and the status of the dictionary returned
  tolerance, answer, evidence, verify_query,
  answer_numbers, evidence_numbers, calc_type, status,
  \* MathVerifier.extract_numbers called on its own: the text handed in and
  \* the list returned
  extract_text, numbers,
  \* MathVerifier._numbers_match called on its own: the two numbers handed
  \* in and the boolean returned
  arg_num1, arg_num2, matched,
  \* IndexBuilder.build_faiss_index: the arguments, the index returned and
  \* the exception raised
  embeddings, index_type, faiss_index, build_error,
  \* A second retrieve call on the same retriever: the arguments of the call
  \* before it, the positions its stage-B dense search returned and the
  \* content it returned
  prev_call, prev_hits, prev_content,
  \* The index store under rebuilds and searches: the versions built so far
  \* (the retriever objects constructed), the version callers are handed, the
  \* holder of the rebuild lock, the rebuilds in progress and the retrieve
  \* call in progress
  versions, current, rebuild_lock, rebuilds, reader,
  \* AnswerGenerator: the backend it was constructed for, what the backend
  \* call comes to, the evidence handed to generate, and what generate
  \* returned or raised
  backend, backend_reply, gen_evidence, gen_result,
  \* compute_recall_at_k: the ranking, the relevant set, and the value it
  \* returned for each cutoff it was called with
  metric_retrieved, metric_relevant, recall_at,
  \* TextChunker: the three attributes; the text handed to chunk_text, its
  \* position, and the locals words, start_idx and chunks (chunk_id is the
  \* length of chunks)
  chunk_size, chunk_overlap, respect_sentence_boundaries,
  chunk_input, chunk_pc, words, start_idx, chunks_out

router_vars    == <<query, route_info>>
merge_vars     == <<dense_in, bm25_in, merged_out>>
fuse_vars      == <<searcher, fuse_dense, fuse_bm25, fuse_top_k, fuse_out>>
retriever_vars == <<section_index, text_index, table_index,
                    section_data, text_data, table_data,
                    pc, call, section_hits, dense_hits, compiled,
                    sections, content, error, encodes>>
verifier_vars  == <<tolerance, answer, evidence, verify_query,
                    answer_numbers, evidence_numbers, calc_type, status,
                    extract_text, numbers, arg_num1, arg_num2, matched>>
builder_vars   == <<embeddings, index_type, faiss_index, build_error>>
prev_vars      == <<prev_call, prev_hits, prev_content>>
store_vars     == <<versions, current, rebuild_lock, rebuilds, reader>>
generator_vars == <<backend, backend_reply, gen_evidence, gen_result>>
metrics_vars   == <<metric_retrieved, metric_relevant, recall_at>>
chunker_vars   == <<chunk_size, chunk_overlap, respect_sentence_boundaries,
                    chunk_input, chunk_pc, words, start_idx, chunks_out>>
vars == <<router_vars, merge_vars, fuse_vars, retriever_vars,
          verifier_vars, builder_vars, prev_vars, store_vars,
          generator_vars, metrics_vars, chunker_vars>>

\* A variable that may hold no value yet holds the empty sequence, and <<v>>
\* once it holds v.
Nothing == <<>>
Some(v) == <<v>>
Value(opt) == opt[1]

---------------------------------------------------------------------------
(* Generic helpers                                                         *)

Min(a, b) == IF a <= b THEN a ELSE b

Range(s) == { s[i] : i \in 1..Len(s) }

\* `sub in s` of Python for strings: sub occurs as a contiguous substring of s.
IsSubstring(sub, s) ==
  \E i \in 1..(Len(s) - Len(sub) + 1) : SubSeq(s, i, i + Len(sub) - 1) = sub

UpperChars ==
  << "A","B","C","D","E","F","G","H","I","J","K","L","M",
     "N","O","P","Q","R","S","T","U","V","W","X","Y","Z" >>

LowerChars ==
  << "a","b","c","d","e","f","g","h","i","j","k","l","m",
     "n","o","p","q","r","s","t","u","v","w","x","y","z" >>

\* str.lower() on one character.
LowerChar(c) ==
  IF \E i \in 1..26 : UpperChars[i] = c
  THEN LowerChars[CHOOSE i \in 1..26 : UpperChars[i] = c]
  ELSE c

\* str.lower()
Lower(s) == [i \in 1..Len(s) |-> LowerChar(s[i])]

---------------------------------------------------------------------------
(* QueryRouter                                                             *)

table_keywords ==
  << <<"y","o","y">>,
     <<"y","e","a","r","-","o","v","e","r","-","y","e","a","r">>,
     <<"c","h","a","n","g","e">>,
     <<"g","r","o","w","t","h">>,
     <<"r","a","t","i","o">>,
     <<"c","o","m","p","a","r","e","d"," ","t","o">>,
     <<"v","e","r","s","u","s">>,
     <<"v","s">>,
     <<"p","e","r","c","e","n","t","a","g","e">>,
     <<"%">>,
     <<"s","e","g","m","e","n","t">>,
     <<"t","o","t","a","l">>,
     <<"r","e","v","e","n","u","e">>,
     <<"e","x","p","e","n","s","e">>,
     <<"d","e","b","t">>,
     <<"e","q","u","i","t","y">>,
     <<"f","i","s","c","a","l"," ","y","e","a","r">>,
     <<"f","y">>,
     <<"2","0","2","2">>,
     <<"2","0","2","3">>,
     <<"2","0","2","4">> >>

math_keywords ==
  << <<"c","a","l","c","u","l","a","t","e">>,
     <<"c","o","m","p","u","t","e">>,
     <<"d","i","f","f","e","r","e","n","c","e">>,
     <<"s","u","m">>,
     <<"t","o","t","a","l">>,
     <<"r","a","t","i","o">>,
     <<"p","e","r","c","e","n","t","a","g","e">>,
     <<"c","h","a","n","g","e">>,
     <<"g","r","o","w","t","h">>,
     <<"i","n","c","r","e","a","s","e">>,
     <<"d","e","c","r","e","a","s","e">> >>

\* sum(1 for kw in keywords if kw in q)
KeywordCount(keywords, q) ==
  Cardinality({ i \in 1..Len(keywords) : IsSubstring(keywords[i], q) })

TableThreshold == 2

IsTableCentricOff(q) == KeywordCount(table_keywords, q) >= 1

\* QueryRouter._is_table_centric
IsTableCentric(q) == KeywordCount(table_keywords, q) >= TableThreshold

\* QueryRouter._requires_math
RequiresMath(q) == \E i \in 1..Len(math_keywords) : IsSubstring(math_keywords[i], q)

\* The confidence values, in tenths.
ConfidenceTable == 8
ConfidenceOther == 6

QueryTypeMathFirst(tc, rm) ==
  IF rm THEN "numeric_text"
  ELSE IF tc THEN "table_lookup"
  ELSE "narrative"

\* The if/elif chain of route that names the query type.
QueryType(tc, rm) ==
  IF tc /\ rm THEN "numeric_table"
  ELSE IF tc THEN "table_lookup"
  ELSE IF rm THEN "numeric_text"
  ELSE "narrative"

\* QueryRouter.route
RouteOf(q) ==
  LET query_lower      == Lower(q)
      is_table_centric == IsTableCentric(query_lower)
      requires_math    == RequiresMath(query_lower)
  IN  [ query_type       |-> QueryType(is_table_centric, requires_math),
        is_table_centric |-> is_table_centric,
        requires_math    |-> requires_math,
        confidence       |-> IF is_table_centric THEN ConfidenceTable
                             ELSE ConfidenceOther ]

\* The words queries are put together from: keywords of both lists in mixed
\* case, a keyword of the math list only, of the table list only, and filler.
QueryWords ==
  { <<"R","e","v","e","n","u","e">>,
    <<"T","O","T","A","L">>,
    <<"s","u","m">>,
    <<"G","r","o","w","t","h">>,
    <<"d","e","c","r","e","a","s","e">>,
    <<"f","y">>,
    <<" ","t","h","e"," ">> }

MaxQueryWords == 3

RECURSIVE Concat(_)
Concat(ws) == IF ws = <<>> THEN <<>> ELSE Head(ws) \o Concat(Tail(ws))

Queries ==
  { Concat(ws) : ws \in UNION { [1..n -> QueryWords] : n \in 0..MaxQueryWords } }

\* A caller hands the query to route and keeps the dictionary it returns.
Route ==
  /\ route_info = Nothing
  /\ route_info' = Some(RouteOf(query))
  /\ UNCHANGED <<query, merge_vars, fuse_vars, retriever_vars,
                 verifier_vars, builder_vars,
                 prev_vars, store_vars, generator_vars, metrics_vars,
                 chunker_vars>>

---------------------------------------------------------------------------
(* Rational numbers: <<n, d>> with d > 0, in lowest terms                  *)

Abs(x) == IF x < 0 THEN -x ELSE x

RECURSIVE Gcd(_, _)
Gcd(a, b) == IF b = 0 THEN a ELSE Gcd(b, a % b)

Rat(n, d) ==
  LET g == Gcd(Abs(n), Abs(d))
      sgn == IF d < 0 THEN -1 ELSE 1
  IN  << sgn * (n \div g), sgn * (d \div g) >>

RatAdd(x, y) == Rat(x[1] * y[2] + y[1] * x[2], x[2] * y[2])
RatMul(x, y) == Rat(x[1] * y[1], x[2] * y[2])
RatDiv(x, y) == Rat(x[1] * y[2], x[2] * y[1])
RatLess(x, y) == x[1] * y[2] < y[1] * x[2]
RatGeq(x, y) == ~RatLess(x, y)
RatOne  == <<1, 1>>
RatZero == <<0, 1>>

---------------------------------------------------------------------------
(* Python containers                                                       *)

\* A dict that keeps insertion order is a sequence of [key, value] entries
\* with pairwise different keys.
DictHas(d, k) == \E i \in 1..Len(d) : d[i].key = k
DictIndex(d, k) == CHOOSE i \in 1..Len(d) : d[i].key = k
DictGet(d, k) == d[DictIndex(d, k)].value

\* d[k] = v: a present key keeps its place and gets the new value, a new key
\* goes to the end.
DictSet(d, k, v) ==
  IF DictHas(d, k)
  THEN [d EXCEPT ![DictIndex(d, k)].value = v]
  ELSE Append(d, [key |-> k, value |-> v])

DictValues(d) == [i \in 1..Len(d) |-> d[i].value]
\* d.items(): the (key, value) pairs; the value of the dictionaries sorted
\* here is a score.
DictItems(d) == [i \in 1..Len(d) |-> [doc_id |-> d[i].key, score |-> d[i].value]]

\* The stable insertion of x into a list in descending order of score: x goes
\* behind every element whose score is at least its own.
InsertDesc(sorted, x) ==
  LET p == Cardinality({ i \in 1..Len(sorted) : RatGeq(sorted[i].score, x.score) })
  IN  SubSeq(sorted, 1, p) \o <<x>> \o SubSeq(sorted, p + 1, Len(sorted))

\* sorted(s, key=lambda x: x['score'], reverse=True): descending, equal
\* scores in their original order.
RECURSIVE SortedDesc(_)
SortedDesc(s) ==
  IF s = <<>> THEN <<>>
  ELSE InsertDesc(SortedDesc(SubSeq(s, 1, Len(s) - 1)), s[Len(s)])

TakeAll(s, k) == s

\* s[:k] for k >= 0
Take(s, k) == SubSeq(s, 1, Min(k, Len(s)))

---------------------------------------------------------------------------
(* HierarchicalRetriever._merge_results                                    *)

\* A content string is its first 50 characters and what follows them.
\* result['content'][:50]
ContentKey(c) == c.prefix

\* The default of the parameter alpha.
DefaultAlpha == <<7, 10>>

LexicalWeightSame(alpha) == alpha

\* (1 - alpha)
LexicalWeight(alpha) == RatAdd(RatOne, <<-alpha[1], alpha[2]>>)

\* The first loop: merged[key] = {**result, 'score': alpha * result['score']}
RECURSIVE MergeDense(_, _, _)
MergeDense(results, alpha, merged) ==
  IF results = <<>> THEN merged
  ELSE LET result == Head(results)
           key    == ContentKey(result.content)
       IN  MergeDense(Tail(results), alpha,
             DictSet(merged, key,
                     [result EXCEPT !.score = RatMul(alpha, result.score)]))

\* The second loop: a key already merged gets (1 - alpha) * score added to its
\* score, a new key is stored with (1 - alpha) * score.
RECURSIVE MergeLexical(_, _, _)
MergeLexical(results, alpha, merged) ==
  IF results = <<>> THEN merged
  ELSE LET result == Head(results)
           key    == ContentKey(result.content)
           part   == RatMul(LexicalWeight(alpha), result.score)
       IN  MergeLexical(Tail(results), alpha,
             IF DictHas(merged, key)
             THEN [merged EXCEPT ![DictIndex(merged, key)].value.score =
                                     RatAdd(@, part)]
             ELSE DictSet(merged, key, [result EXCEPT !.score = part]))

\* HierarchicalRetriever._merge_results
MergeResults(dense_results, bm25_results, alpha) ==
  SortedDesc(DictValues(MergeLexical(bm25_results, alpha,
                          MergeDense(dense_results, alpha, <<>>))))

\* A caller hands two result lists to _merge_results with the default alpha.
Merge ==
  /\ merged_out = Nothing
  /\ merged_out' = Some(MergeResults(dense_in, bm25_in, DefaultAlpha))
  /\ UNCHANGED <<dense_in, bm25_in, router_vars, fuse_vars, retriever_vars,
                 verifier_vars, builder_vars,
                 prev_vars, store_vars, generator_vars, metrics_vars,
                 chunker_vars>>

---------------------------------------------------------------------------
(* HybridSearcher                                                          *)

\* HybridSearcher.__init__: both weights are divided by their sum; a sum of
\* zero raises ZeroDivisionError out of the constructor.
NewHybridSearcher(dense_weight, bm25_weight) ==
  LET total == RatAdd(dense_weight, bm25_weight)
  IN  IF total = RatZero
      THEN [error |-> "ZeroDivisionError",
            dense_weight |-> dense_weight, bm25_weight |-> bm25_weight]
      ELSE [error |-> "none",
            dense_weight |-> RatDiv(dense_weight, total),
            bm25_weight  |-> RatDiv(bm25_weight, total)]

\* result.get('id', str(result)): the id of a result that has one, the text
\* of the whole dictionary otherwise.
DocId(result) ==
  IF result.id # "" THEN <<"id", result.id, "", RatZero>>
  ELSE <<"str", "", result.content, result.score>>

RankScoreOneBased(weight, rank) == RatDiv(weight, <<rank + 2, 1>>)

\* weight / (rank + 1), rank counted from 0
RankScore(weight, rank) == RatDiv(weight, <<rank + 1, 1>>)

\* The first loop of fuse_results: scores[doc_id] = dense_weight / (rank + 1)
RECURSIVE FuseDense(_, _, _, _)
FuseDense(results, rank, weight, scores) ==
  IF rank >= Len(results) THEN scores
  ELSE FuseDense(results, rank + 1, weight,
         DictSet(scores, DocId(results[rank + 1]), RankScore(weight, rank)))

\* The second loop: a document already scored gets bm25_weight / (rank + 1)
\* added, a new one is stored with it.
RECURSIVE FuseLexical(_, _, _, _)
FuseLexical(results, rank, weight, scores) ==
  IF rank >= Len(results) THEN scores
  ELSE LET doc_id == DocId(results[rank + 1])
       IN  FuseLexical(results, rank + 1, weight,
             IF DictHas(scores, doc_id)
             THEN DictSet(scores, doc_id,
                          RatAdd(DictGet(scores, doc_id), RankScore(weight, rank)))
             ELSE DictSet(scores, doc_id, RankScore(weight, rank)))

\* HybridSearcher.fuse_results: the (doc_id, score) pairs, best first.
FuseResults(self, dense_results, bm25_results, top_k) ==
  Take(SortedDesc(DictItems(FuseLexical(bm25_results, 0, self.bm25_weight,
                              FuseDense(dense_results, 0, self.dense_weight, <<>>)))),
       top_k)

\* The defaults of the constructor's parameters.
DefaultDenseWeight == <<7, 10>>
DefaultBm25Weight  == <<3, 10>>

\* HybridSearcher(dense_weight, bm25_weight)
Construct(dense_weight, bm25_weight) ==
  /\ searcher = Nothing
  /\ searcher' = Some(NewHybridSearcher(dense_weight, bm25_weight))
  /\ UNCHANGED <<fuse_dense, fuse_bm25, fuse_top_k, fuse_out,
                 router_vars, merge_vars, retriever_vars,
                 verifier_vars, builder_vars,
                 prev_vars, store_vars, generator_vars, metrics_vars,
                 chunker_vars>>

\* searcher.fuse_results(dense_results, bm25_results, top_k)
Fuse(top_k) ==
  /\ searcher # Nothing
  /\ Value(searcher).error = "none"
  /\ fuse_out = Nothing
  /\ fuse_top_k' = top_k
  /\ fuse_out' = Some(FuseResults(Value(searcher), fuse_dense, fuse_bm25, top_k))
  /\ UNCHANGED <<searcher, fuse_dense, fuse_bm25,
                 router_vars, merge_vars, retriever_vars,
                 verifier_vars, builder_vars,
                 prev_vars, store_vars, generator_vars, metrics_vars,
                 chunker_vars>>

---------------------------------------------------------------------------
(* HierarchicalRetriever                                                   *)

\* list[idx] of Python raises IndexError outside -len(list) .. len(list) - 1
\* and counts a negative idx from the end of the list.
IndexInRange(list, idx) == -Len(list) <= idx /\ idx < Len(list)
PyIndex(list, idx) == IF idx >= 0 THEN list[idx + 1] ELSE list[Len(list) + idx + 1]

\* index.search reports a missing neighbour (fewer than k vectors in the
\* index) as position -1 at the largest float32 distance, 3.4e38, which
\* stands here as a distance far beyond every distance between two vectors.
MissingNeighbour == -1
FltMax == 1000

\* The squared L2 distance of IndexFlatL2, on embeddings of one dimension.
L2(x, y) == (x - y) * (x - y)

\* The orders in which index.search may return the vectors of the index:
\* ascending distance to the query vector, equal distances in any order.
DenseOrders(index, qvec) ==
  LET n == Len(index)
  IN  { f \in [1..n -> 0..(n - 1)] :
          /\ \A i \in 1..n : \A j \in 1..n : f[i] = f[j] => i = j
          /\ \A i \in 1..n : \A j \in 1..n :
               i < j => L2(index[f[i] + 1], qvec) <= L2(index[f[j] + 1], qvec) }

\* index.search(query_embedding, k): the (indices[0], distances[0]) rows it
\* may return, as one list of k hits.
DenseSearch(index, qvec, k) ==
  { [ j \in 1..k |->
        IF j <= Len(index)
        THEN [idx |-> f[j], dist |-> L2(index[f[j] + 1], qvec)]
        ELSE [idx |-> MissingNeighbour, dist |-> FltMax] ]
    : f \in DenseOrders(index, qvec) }

\* 1.0 / (1.0 + distance)
DistToScore(dist) == Rat(1, 1 + dist)

\* The result loop of retrieve_sections: no test of idx before it indexes.
RECURSIVE CompileSections(_, _, _)
CompileSections(hits, i, results) ==
  IF i > Len(hits) THEN [error |-> "none", results |-> results]
  ELSE LET idx == hits[i].idx
       IN  IF ~IndexInRange(section_data.abstracts, idx)
              \/ ~IndexInRange(section_data.metadata, idx)
           THEN [error |-> "IndexError", results |-> results]
           ELSE CompileSections(hits, i + 1,
                  Append(results,
                    [section_abstract |-> PyIndex(section_data.abstracts, idx),
                     metadata         |-> PyIndex(section_data.metadata, idx),
                     score            |-> DistToScore(hits[i].dist)]))

\* HierarchicalRetriever.retrieve_sections: what a call may come to.
RetrieveSections(q, k) ==
  { LET c == CompileSections(hits, 1, <<>>)
    IN  [error |-> c.error, hits |-> hits,
         results |-> IF c.error = "none" THEN c.results ELSE <<>>]
    : hits \in DenseSearch(section_index, q.vec, k) }

\* bm25_index.get_scores(query_tokens): one score per document, here 2 for a
\* document that holds a token of the query and 0 for one that holds none.
Bm25Scores(q, documents) ==
  [i \in 1..Len(documents) |->
     IF documents[i].prefix \in q.tokens THEN <<2, 1>> ELSE RatZero]

\* np.argsort(scores)[::-1][:k]: the positions by descending score, equal
\* scores in an order the sort does not promise.
TopIndices(scores, k) ==
  LET n == Len(scores)
  IN  { Take(f, k) :
        f \in { g \in [1..n -> 0..(n - 1)] :
                  /\ \A i \in 1..n : \A j \in 1..n : g[i] = g[j] => i = j
                  /\ \A i \in 1..n : \A j \in 1..n :
                       i < j => RatGeq(scores[g[i] + 1], scores[g[j] + 1]) } }

\* HierarchicalRetriever._bm25_search: the lists it may return.
Bm25Search(q, documents, metadata, k) ==
  LET scores == Bm25Scores(q, documents)
  IN  { [ i \in 1..Len(top) |->
            [content  |-> documents[top[i] + 1],
             metadata |-> metadata[top[i] + 1],
             score    |-> scores[top[i] + 1]] ]
        : top \in TopIndices(scores, k) }

\* The result loop of _retrieve_text: no test of idx before it indexes.
RECURSIVE CompileText(_, _, _)
CompileText(hits, i, results) ==
  IF i > Len(hits) THEN [error |-> "none", results |-> results]
  ELSE LET idx == hits[i].idx
       IN  IF ~IndexInRange(text_data.chunks, idx)
              \/ ~IndexInRange(text_data.metadata, idx)
           THEN [error |-> "IndexError", results |-> results]
           ELSE CompileText(hits, i + 1,
                  Append(results,
                    [content  |-> PyIndex(text_data.chunks, idx),
                     metadata |-> PyIndex(text_data.metadata, idx),
                     score    |-> DistToScore(hits[i].dist)]))

\* The result loop of _retrieve_tables: idx >= len(sentences) is skipped, any
\* other idx indexes the metadata and the sentences.
RECURSIVE CompileTables(_, _, _)
CompileTables(hits, i, results) ==
  IF i > Len(hits) THEN [error |-> "none", results |-> results]
  ELSE LET idx == hits[i].idx
       IN  IF idx >= Len(table_data.sentences)
           THEN CompileTables(hits, i + 1, results)
           ELSE IF ~IndexInRange(table_data.metadata, idx)
                   \/ ~IndexInRange(table_data.sentences, idx)
           THEN [error |-> "IndexError", results |-> results]
           ELSE CompileTables(hits, i + 1,
                  Append(results,
                    [content  |-> PyIndex(table_data.sentences, idx),
                     metadata |-> PyIndex(table_data.metadata, idx),
                     score    |-> DistToScore(hits[i].dist)]))

\* What a stage-B search hands back: the exception it raised or the content
\* it returned, the hits of its dense search, the list compiled from them and
\* the number of its calls of embedding_model.encode.
Outcome(err, cont, hits, results, n) ==
  [error |-> err, content |-> cont, hits |-> hits, results |-> results,
   encodes |-> n]

\* HierarchicalRetriever._retrieve_text: what a call may come to.
RetrieveText(q, k, use_hybrid) ==
  UNION {
    LET c == CompileText(hits, 1, <<>>)
    IN  IF c.error # "none"
        THEN { Outcome(c.error, <<>>, hits, c.results, 1) }
        ELSE IF use_hybrid /\ text_data.bm25 # "absent"
        THEN IF text_data.bm25 = "None"
             THEN { Outcome("AttributeError", <<>>, hits, c.results, 1) }
             ELSE { Outcome("none",
                            Take(MergeResults(c.results, b, DefaultAlpha), k),
                            hits, c.results, 1)
                    : b \in Bm25Search(q, text_data.chunks, text_data.metadata, k) }
        ELSE { Outcome("none", Take(c.results, k), hits, c.results, 1) }
    : hits \in DenseSearch(text_index, q.vec, k * 2) }

\* _retrieve_tables past its test of the table corpus: the dense search of
\* the table index, the result loop, the fusion and the truncation.
SearchTables(q, k, use_hybrid) ==
  UNION {
    LET c == CompileTables(hits, 1, <<>>)
    IN  IF c.error # "none"
        THEN { Outcome(c.error, <<>>, hits, c.results, 1) }
        ELSE IF use_hybrid /\ table_data.bm25 # "absent" /\ table_data.bm25 # "None"
        THEN { Outcome("none",
                       Take(MergeResults(c.results, b, DefaultAlpha), k),
                       hits, c.results, 1)
               : b \in Bm25Search(q, table_data.sentences, table_data.metadata, k) }
        ELSE { Outcome("none", Take(c.results, k), hits, c.results, 1) }
    : hits \in DenseSearch(table_index, q.vec, k * 2) }

RetrieveTablesNoFallback(q, k, use_hybrid) ==
  IF ~table_data.has_sentences \/ Len(table_data.sentences) = 0
  THEN { Outcome("none", <<>>, <<>>, <<>>, 0) }
  ELSE SearchTables(q, k, use_hybrid)

\* HierarchicalRetriever._retrieve_tables: what a call may come to.  No
\* 'sentences' in table_data, or an empty list, hands the call to
\* _retrieve_text.
RetrieveTables(q, k, use_hybrid) ==
  IF ~table_data.has_sentences \/ Len(table_data.sentences) = 0
  THEN RetrieveText(q, k, use_hybrid)
  ELSE SearchTables(q, k, use_hybrid)

\* retriever.retrieve(query, route_info, top_k_sections, top_k_content,
\* use_hybrid) is entered.
Retrieve(q, is_table_centric, top_k_sections, top_k_content, use_hybrid) ==
  /\ pc = "idle"
  /\ call' = Some([query |-> q, is_table_centric |-> is_table_centric,
                   top_k_sections |-> top_k_sections,
                   top_k_content |-> top_k_content, use_hybrid |-> use_hybrid])
  /\ pc' = "stageA"
  /\ UNCHANGED <<section_index, text_index, table_index,
                 section_data, text_data, table_data,
                 section_hits, dense_hits, compiled, sections, content,
                 error, encodes, router_vars, merge_vars, fuse_vars,
                 verifier_vars, builder_vars,
                 prev_vars, store_vars, generator_vars, metrics_vars,
                 chunker_vars>>

\* Stage A of retrieve: retrieve_sections and the section identifiers; an
\* exception leaves retrieve.
\* retrieve that goes on to stage B whatever retrieve_sections came to
StageAGoesOn ==
  /\ pc = "stageA"
  /\ \E o \in RetrieveSections(Value(call).query, Value(call).top_k_sections) :
       /\ section_hits' = o.hits
       /\ sections' = o.results
       /\ error' = o.error
       /\ pc' = "stageB"
  /\ encodes' = encodes + 1
  /\ UNCHANGED <<section_index, text_index, table_index,
                 section_data, text_data, table_data, call,
                 dense_hits, compiled, content,
                 router_vars, merge_vars, fuse_vars,
                 verifier_vars, builder_vars,
                 prev_vars, store_vars, generator_vars, metrics_vars,
                 chunker_vars>>

StageA ==
  /\ pc = "stageA"
  /\ \E o \in RetrieveSections(Value(call).query, Value(call).top_k_sections) :
       /\ section_hits' = o.hits
       /\ sections' = o.results
       /\ error' = o.error
       /\ pc' = IF o.error = "none" THEN "stageB" ELSE "raised"
  /\ encodes' = encodes + 1
  /\ UNCHANGED <<section_index, text_index, table_index,
                 section_data, text_data, table_data, call,
                 dense_hits, compiled, content,
                 router_vars, merge_vars, fuse_vars,
                 verifier_vars, builder_vars,
                 prev_vars, store_vars, generator_vars, metrics_vars,
                 chunker_vars>>

\* Stage B of retrieve: the table or the text search, and the return.
\* Stage B as a hard filter: it keeps the results whose position in their
\* corpus is one of the positions stage A selected.
StageBSectionFilter ==
  /\ pc = "stageB"
  /\ \E o \in (IF Value(call).is_table_centric
               THEN RetrieveTables(Value(call).query, Value(call).top_k_content,
                                   Value(call).use_hybrid)
               ELSE RetrieveText(Value(call).query, Value(call).top_k_content,
                                 Value(call).use_hybrid)) :
       /\ dense_hits' = o.hits
       /\ compiled' = o.results
       /\ content' = SelectSeq(o.content,
                        LAMBDA r : \E i \in 1..Len(section_hits) :
                                     section_hits[i].idx = r.metadata.id)
       /\ error' = o.error
       /\ encodes' = encodes + o.encodes
       /\ pc' = IF o.error = "none" THEN "done" ELSE "raised"
  /\ UNCHANGED <<section_index, text_index, table_index,
                 section_data, text_data, table_data, call,
                 section_hits, sections, router_vars, merge_vars, fuse_vars,
                 verifier_vars, builder_vars,
                 prev_vars, store_vars, generator_vars, metrics_vars,
                 chunker_vars>>

StageB ==
  /\ pc = "stageB"
  /\ \E o \in (IF Value(call).is_table_centric
               THEN RetrieveTables(Value(call).query, Value(call).top_k_content,
                                   Value(call).use_hybrid)
               ELSE RetrieveText(Value(call).query, Value(call).top_k_content,
                                 Value(call).use_hybrid)) :
       /\ dense_hits' = o.hits
       /\ compiled' = o.results
       /\ content' = o.content
       /\ error' = o.error
       /\ encodes' = encodes + o.encodes
       /\ pc' = IF o.error = "none" THEN "done" ELSE "raised"
  /\ UNCHANGED <<section_index, text_index, table_index,
                 section_data, text_data, table_data, call,
                 section_hits, sections, router_vars, merge_vars, fuse_vars,
                 verifier_vars, builder_vars,
                 prev_vars, store_vars, generator_vars, metrics_vars,
                 chunker_vars>>

\* The caller keeps what a call returned and calls retrieve again on the
\* same retriever, with the same query, route decision, top_k_content and
\* use_hybrid and with top_k_sections of its choice.
Again(top_k_sections) ==
  /\ pc = "done"
  /\ prev_call = Nothing
  /\ prev_call' = call
  /\ prev_hits' = dense_hits
  /\ prev_content' = content
  /\ call' = Some([Value(call) EXCEPT !.top_k_sections = top_k_sections])
  /\ pc' = "stageA"
  /\ section_hits' = <<>> /\ dense_hits' = <<>> /\ compiled' = <<>>
  /\ sections' = <<>> /\ content' = <<>>
  /\ encodes' = 0
  /\ UNCHANGED <<section_index, text_index, table_index,
                 section_data, text_data, table_data, error,
                 router_vars, merge_vars, fuse_vars,
                 verifier_vars, builder_vars,
                 store_vars, generator_vars, metrics_vars, chunker_vars>>

---------------------------------------------------------------------------
(* MathVerifier                                                            *)
(* Numbers are exact rationals; the rounding of floats is not modelled.    *)

RatSub(x, y) == Rat(x[1] * y[2] - y[1] * x[2], x[2] * y[2])
RatAbs(x) == << Abs(x[1]), x[2] >>
RatOfInt(n) == << n, 1 >>

DigitChars == << "0", "1", "2", "3", "4", "5", "6", "7", "8", "9" >>

\* \d
IsDigit(c) == \E i \in 1..10 : DigitChars[i] = c

DigitValue(c) == (CHOOSE i \in 1..10 : DigitChars[i] = c) - 1

\* s[p:].startswith(w), p counted from 1
StartsWith(s, p, w) ==
  p + Len(w) - 1 <= Len(s) /\ SubSeq(s, p, p + Len(w) - 1) = w

million  == << "m", "i", "l", "l", "i", "o", "n" >>
billion  == << "b", "i", "l", "l", "i", "o", "n" >>
thousand == << "t", "h", "o", "u", "s", "a", "n", "d" >>

\* The alternatives of the unit group [MBmb]|million|billion|thousand, in the
\* order the regular expression engine tries them.
UnitAlternatives ==
  << << "M" >>, << "B" >>, << "m" >>, << "b" >>, million, billion, thousand >>

\* The position after the longest run of digits that starts at p (\d* and,
\* when it has moved, \d+).
RECURSIVE DigitsEnd(_, _)
DigitsEnd(s, p) ==
  IF p <= Len(s) /\ IsDigit(s[p]) THEN DigitsEnd(s, p + 1) ELSE p

\* The position after the optional unit at p: the first alternative that
\* matches is taken, and nothing after the group makes the engine come back
\* to try a later one.
UnitEnd(s, p) ==
  LET matching == { i \in 1..Len(UnitAlternatives) :
                      StartsWith(s, p, UnitAlternatives[i]) }
  IN  IF matching = {} THEN p
      ELSE LET first == CHOOSE i \in matching : \A j \in matching : i <= j
           IN  p + Len(UnitAlternatives[first])

NoMatch == 0

\* The position after the match of the pattern
\*   -?\d+\.?\d*(?:[MBmb]|million|billion|thousand)?
\* that starts at p, or NoMatch.  Every quantifier is greedy and everything
\* after \d+ is optional, so the longest choice at each step is the match.
MatchEnd(s, p) ==
  LET q == IF s[p] = "-" THEN p + 1 ELSE p
      d == DigitsEnd(s, q)
  IN  IF d = q THEN NoMatch
      ELSE LET e == IF d <= Len(s) /\ s[d] = "." THEN d + 1 ELSE d
           IN  UnitEnd(s, DigitsEnd(s, e))

\* re.findall(pattern, s[p:]): the non-overlapping matches, left to right.
RECURSIVE FindAll(_, _)
FindAll(s, p) ==
  IF p > Len(s) THEN <<>>
  ELSE LET e == MatchEnd(s, p)
       IN  IF e = NoMatch THEN FindAll(s, p + 1)
           ELSE << SubSeq(s, p, e - 1) >> \o FindAll(s, e)

\* re.sub(r'[MBmb]|million|billion|thousand', '', s[p:])
RECURSIVE StripUnits(_, _)
StripUnits(s, p) ==
  IF p > Len(s) THEN <<>>
  ELSE LET e == UnitEnd(s, p)
       IN  IF e = p THEN << s[p] >> \o StripUnits(s, p + 1)
           ELSE StripUnits(s, e)

\* int(s) of a string of digits, after the digits read so far gave acc.
RECURSIVE DigitsValue(_, _)
DigitsValue(s, acc) ==
  IF s = <<>> THEN acc ELSE DigitsValue(Tail(s), 10 * acc + DigitValue(Head(s)))

RECURSIVE Pow10(_)
Pow10(n) == IF n = 0 THEN 1 ELSE 10 * Pow10(n - 1)

\* The strings float() accepts among those the substitution can leave:
\* an optional sign, digits, and an optional point followed by digits.
IsFloatLiteral(s) ==
  LET q == IF s # <<>> /\ s[1] = "-" THEN 2 ELSE 1
      d == DigitsEnd(s, q)
      e == IF d <= Len(s) /\ s[d] = "." THEN d + 1 ELSE d
  IN  d > q /\ DigitsEnd(s, e) = Len(s) + 1

\* float(s) for such a string
Float(s) ==
  LET q == IF s[1] = "-" THEN 2 ELSE 1
      d == DigitsEnd(s, q)
      e == IF d <= Len(s) /\ s[d] = "." THEN d + 1 ELSE d
      whole == DigitsValue(SubSeq(s, q, d - 1), 0)
      frac == SubSeq(s, e, Len(s))
      magnitude == Rat(whole * Pow10(Len(frac)) + DigitsValue(frac, 0),
                       Pow10(Len(frac)))
  IN  IF q = 2 THEN << -magnitude[1], magnitude[2] >> ELSE magnitude

Billion      == 1000000000
Million      == 1000000
ThousandMult == 1000

\* The multiplier the code applies to one match of the pattern.
Multiplier(match) ==
  IF IsSubstring(<< "B" >>, match) \/ IsSubstring(billion, Lower(match))
  THEN Billion
  ELSE IF IsSubstring(<< "M" >>, match) \/ IsSubstring(million, Lower(match))
  THEN Million
  ELSE IF IsSubstring(thousand, Lower(match))
  THEN ThousandMult
  ELSE 1

\* The loop over the matches; a match float() rejects is dropped.
RECURSIVE ConvertMatches(_)
ConvertMatches(matches) ==
  IF matches = <<>> THEN <<>>
  ELSE LET match == Head(matches)
           num_str == StripUnits(match, 1)
       IN  IF IsFloatLiteral(num_str)
           THEN << RatMul(Float(num_str), RatOfInt(Multiplier(match))) >>
                  \o ConvertMatches(Tail(matches))
           ELSE ConvertMatches(Tail(matches))

\* MathVerifier.extract_numbers on a string
ExtractNumbers(s) == ConvertMatches(FindAll(s, 1))

difference_keywords ==
  << << "c","h","a","n","g","e" >>,
     << "d","i","f","f","e","r","e","n","c","e" >>,
     << "i","n","c","r","e","a","s","e" >>,
     << "d","e","c","r","e","a","s","e" >> >>

ratio_keywords ==
  << << "r","a","t","i","o" >>,
     << "c","o","m","p","a","r","e","d"," ","t","o" >>,
     << "p","e","r" >> >>

percentage_keywords ==
  << << "p","e","r","c","e","n","t","a","g","e" >>,
     << "%" >>,
     << "p","e","r","c","e","n","t" >>,
     << "y","o","y" >> >>

\* any(kw in s for kw in keywords)
AnyKeywordIn(keywords, s) ==
  \E i \in 1..Len(keywords) : IsSubstring(keywords[i], s)

\* MathVerifier._detect_calculation_type: answer_lower is computed and not
\* looked at; the three tests read query_lower only.
DetectCalculationType(q, a) ==
  LET query_lower == Lower(q)
      answer_lower == Lower(a)
  IN  IF AnyKeywordIn(difference_keywords, query_lower) THEN "difference"
      ELSE IF AnyKeywordIn(ratio_keywords, query_lower) THEN "ratio"
      ELSE IF AnyKeywordIn(percentage_keywords, query_lower) THEN "percentage"
      ELSE "lookup"

DefaultTolerance == << 1, 100 >>

\* _numbers_match with <= in place of <
NumbersMatchInclusive(num1, num2, tol) ==
  IF num2 = RatZero
  THEN ~RatLess(tol, RatAbs(num1))
  ELSE ~RatLess(tol, RatAbs(RatDiv(RatSub(num1, num2), num2)))

\* MathVerifier._numbers_match
NumbersMatch(num1, num2, tol) ==
  IF num2 = RatZero
  THEN RatLess(RatAbs(num1), tol)
  ELSE RatLess(RatAbs(RatDiv(RatSub(num1, num2), num2)), tol)

\* _verify_difference without abs()
VerifyDifferenceSigned(answer_nums, evidence_nums, tol) ==
  IF Len(answer_nums) < 1 \/ Len(evidence_nums) < 2 THEN FALSE
  ELSE \E i \in 1..Len(evidence_nums) :
         \E j \in (i + 1)..Len(evidence_nums) :
           NumbersMatch(answer_nums[1],
                        RatSub(evidence_nums[i], evidence_nums[j]), tol)

\* MathVerifier._verify_difference: the pairs i < j, the first answer number
VerifyDifference(answer_nums, evidence_nums, tol) ==
  IF Len(answer_nums) < 1 \/ Len(evidence_nums) < 2 THEN FALSE
  ELSE \E i \in 1..Len(evidence_nums) :
         \E j \in (i + 1)..Len(evidence_nums) :
           LET diff == RatAbs(RatSub(evidence_nums[i], evidence_nums[j]))
           IN  NumbersMatch(answer_nums[1], diff, tol)

\* _verify_ratio with the inner loop of _verify_difference, j > i
VerifyRatioForward(answer_nums, evidence_nums, tol) ==
  IF Len(answer_nums) < 1 \/ Len(evidence_nums) < 2 THEN FALSE
  ELSE \E i \in 1..Len(evidence_nums) :
         \E j \in (i + 1)..Len(evidence_nums) :
           /\ evidence_nums[j] # RatZero
           /\ NumbersMatch(answer_nums[1],
                           RatDiv(evidence_nums[i], evidence_nums[j]), tol)

\* MathVerifier._verify_ratio
VerifyRatio(answer_nums, evidence_nums, tol) ==
  IF Len(answer_nums) < 1 \/ Len(evidence_nums) < 2 THEN FALSE
  ELSE \E i \in 1..Len(evidence_nums) :
         \E j \in 1..Len(evidence_nums) :
           /\ i # j /\ evidence_nums[j] # RatZero
           /\ LET ratio == RatDiv(evidence_nums[i], evidence_nums[j])
              IN  NumbersMatch(answer_nums[1], ratio, tol)

\* _verify_percentage without the factor 100
VerifyPercentageFraction(answer_nums, evidence_nums, tol) ==
  IF Len(answer_nums) < 1 \/ Len(evidence_nums) < 2 THEN FALSE
  ELSE \E i \in 1..Len(evidence_nums) :
         \E j \in 1..Len(evidence_nums) :
           /\ i # j /\ evidence_nums[j] # RatZero
           /\ NumbersMatch(answer_nums[1],
                           RatDiv(RatSub(evidence_nums[i], evidence_nums[j]),
                                  evidence_nums[j]), tol)

\* MathVerifier._verify_percentage
VerifyPercentage(answer_nums, evidence_nums, tol) ==
  IF Len(answer_nums) < 1 \/ Len(evidence_nums) < 2 THEN FALSE
  ELSE \E i \in 1..Len(evidence_nums) :
         \E j \in 1..Len(evidence_nums) :
           /\ i # j /\ evidence_nums[j] # RatZero
           /\ LET pct_change ==
                    RatMul(RatDiv(RatSub(evidence_nums[i], evidence_nums[j]),
                                  evidence_nums[j]),
                           RatOfInt(100))
              IN  NumbersMatch(answer_nums[1], pct_change, tol)

\* _verify_presence that is content with one answer number in the evidence
VerifyPresenceAny(answer_nums, evidence_nums, tol) ==
  \E a \in 1..Len(answer_nums) :
    \E e \in 1..Len(evidence_nums) :
      NumbersMatch(answer_nums[a], evidence_nums[e], tol)

\* MathVerifier._verify_presence
VerifyPresence(answer_nums, evidence_nums, tol) ==
  \A a \in 1..Len(answer_nums) :
    \E e \in 1..Len(evidence_nums) :
      NumbersMatch(answer_nums[a], evidence_nums[e], tol)

\* The loop of verify without the test of content_type
RECURSIVE EvidenceNumbersAll(_)
EvidenceNumbersAll(ev) ==
  IF ev = <<>> THEN <<>>
  ELSE ExtractNumbers(Head(ev).content) \o EvidenceNumbersAll(Tail(ev))

\* The loop of verify over the evidence: the numbers of the pieces whose
\* content_type is 'table', in the order of the pieces.
RECURSIVE EvidenceNumbers(_)
EvidenceNumbers(ev) ==
  IF ev = <<>> THEN <<>>
  ELSE (IF Head(ev).metadata.content_type = "table"
        THEN ExtractNumbers(Head(ev).content)
        ELSE <<>>) \o EvidenceNumbers(Tail(ev))

\* The branch of verify on the calculation type.
Verified(type, answer_nums, evidence_nums, tol) ==
  IF type = "difference" THEN VerifyDifference(answer_nums, evidence_nums, tol)
  ELSE IF type = "ratio" THEN VerifyRatio(answer_nums, evidence_nums, tol)
  ELSE IF type = "percentage"
  THEN VerifyPercentage(answer_nums, evidence_nums, tol)
  ELSE VerifyPresence(answer_nums, evidence_nums, tol)

\* verify with the early return taken on an empty evidence number list
VerdictOfEvidenceTest(ans_nums, ev_nums, q, a, tol) ==
  IF ev_nums = <<>>
  THEN [calc_type |-> "none", status |-> "no_numbers"]
  ELSE LET type == DetectCalculationType(q, a)
       IN  [calc_type |-> type,
            status |-> IF Verified(type, ans_nums, ev_nums, tol)
                       THEN "verified" ELSE "failed"]

\* The part of verify after the two extractions: the calculation type it
\* detected ("none" when it returned before) and the status it returns.
VerdictOf(ans_nums, ev_nums, q, a, tol) ==
  IF ans_nums = <<>>
  THEN [calc_type |-> "none", status |-> "no_numbers"]
  ELSE LET type == DetectCalculationType(q, a)
       IN  [calc_type |-> type,
            status |-> IF Verified(type, ans_nums, ev_nums, tol)
                       THEN "verified" ELSE "failed"]

\* MathVerifier.verify
Verify ==
  /\ status = "none"
  /\ LET ans_nums == ExtractNumbers(answer)
         ev_nums == EvidenceNumbers(evidence)
         verdict == VerdictOf(ans_nums, ev_nums, verify_query, answer,
                              Value(tolerance))
     IN  /\ answer_numbers' = ans_nums
         /\ evidence_numbers' = ev_nums
         /\ calc_type' = verdict.calc_type
         /\ status' = verdict.status
  /\ UNCHANGED <<tolerance, answer, evidence, verify_query, extract_text,
                 numbers, arg_num1, arg_num2, matched,
                 router_vars, merge_vars, fuse_vars, retriever_vars,
                 builder_vars,
                 prev_vars, store_vars, generator_vars, metrics_vars,
                 chunker_vars>>

\* MathVerifier.extract_numbers called on a text
Extract ==
  /\ numbers = Nothing
  /\ numbers' = Some(ExtractNumbers(extract_text))
  /\ UNCHANGED <<tolerance, answer, evidence, verify_query, answer_numbers,
                 evidence_numbers, calc_type, status, extract_text,
                 arg_num1, arg_num2, matched,
                 router_vars, merge_vars, fuse_vars, retriever_vars,
                 builder_vars,
                 prev_vars, store_vars, generator_vars, metrics_vars,
                 chunker_vars>>

\* MathVerifier._numbers_match called on two numbers
Match ==
  /\ matched = Nothing
  /\ matched' = Some(NumbersMatch(arg_num1, arg_num2, Value(tolerance)))
  /\ UNCHANGED <<tolerance, answer, evidence, verify_query, answer_numbers,
                 evidence_numbers, calc_type, status, extract_text, numbers,
                 arg_num1, arg_num2,
                 router_vars, merge_vars, fuse_vars, retriever_vars,
                 builder_vars,
                 prev_vars, store_vars, generator_vars, metrics_vars,
                 chunker_vars>>

---------------------------------------------------------------------------
(* IndexBuilder.build_faiss_index                                          *)
(* An embedding is one number, as in the retriever; the array of           *)
(* embeddings is a sequence of them.                                       *)

MaxClusters == 100
PointsPerCluster == 10

\* nlist = min(100, embeddings.shape[0] // 10)
Nlist(embs) == Min(MaxClusters, Len(embs) \div PointsPerCluster)

\* The outcomes of build_faiss_index.  Training an inverted-file index of
\* nlist = 0 clusters is left to the library: it either fails or goes on.
BuildFaissIndex(embs, kind) ==
  IF kind = "flat"
  THEN { [error |-> "none", index |-> Some([kind |-> "IndexFlatL2", vectors |-> embs])] }
  ELSE IF kind = "ivf"
  THEN { [error |-> "none",
          index |-> Some([kind |-> "IndexIVFFlat", vectors |-> embs])] }
       \cup (IF Nlist(embs) = 0
             THEN { [error |-> "RuntimeError", index |-> Nothing] }
             ELSE {})
  ELSE IF kind = "hnsw"
  THEN { [error |-> "none", index |-> Some([kind |-> "IndexHNSWFlat", vectors |-> embs])] }
  ELSE { [error |-> "ValueError", index |-> Nothing] }

\* A caller builds an index and keeps what the call returned or raised.
Build ==
  /\ faiss_index = Nothing /\ build_error = "none"
  /\ \E o \in BuildFaissIndex(embeddings, index_type) :
       /\ faiss_index' = o.index
       /\ build_error' = o.error
  /\ UNCHANGED <<embeddings, index_type, router_vars, merge_vars, fuse_vars,
                 retriever_vars, verifier_vars,
                 prev_vars, store_vars, generator_vars, metrics_vars,
                 chunker_vars>>

---------------------------------------------------------------------------
(* compute_recall_at_k                                                     *)

\* list[:k] of Python: the first k items, all of them when k is beyond the
\* end, and all but the last -k when k is negative.
SliceTo(list, k) ==
  IF k >= 0 THEN SubSeq(list, 1, Min(k, Len(list)))
  ELSE SubSeq(list, 1, Len(list) + k)

\* list[k:] of Python
SliceFrom(list, k) ==
  IF k >= 0 THEN SubSeq(list, Min(k, Len(list)) + 1, Len(list))
  ELSE SubSeq(list, (IF Len(list) + k < 0 THEN 0 ELSE Len(list) + k) + 1,
              Len(list))

\* compute_recall_at_k that counts the items after the cutoff
RecallAtKFrom(retrieved, relevant, k) ==
  IF Cardinality(relevant) = 0 THEN RatZero
  ELSE LET retrieved_at_k == Range(SliceFrom(retrieved, k))
           num_relevant_retrieved == Cardinality(retrieved_at_k \cap relevant)
       IN  Rat(num_relevant_retrieved, Cardinality(relevant))

\* compute_recall_at_k
RecallAtK(retrieved, relevant, k) ==
  IF Cardinality(relevant) = 0 THEN RatZero
  ELSE LET retrieved_at_k == Range(SliceTo(retrieved, k))
           num_relevant_retrieved == Cardinality(retrieved_at_k \cap relevant)
       IN  Rat(num_relevant_retrieved, Cardinality(relevant))

\* A caller computes the recall at cutoff k of its ranking and keeps it.
ComputeRecall(k) ==
  /\ \A r \in recall_at : r.k # k
  /\ recall_at' = recall_at \cup
       { [k |-> k, value |-> RecallAtK(metric_retrieved, metric_relevant, k)] }
  /\ UNCHANGED <<metric_retrieved, metric_relevant,
                 router_vars, merge_vars, fuse_vars, retriever_vars,
                 verifier_vars, builder_vars, prev_vars, store_vars,
                 generator_vars, chunker_vars>>

---------------------------------------------------------------------------
(* AnswerGenerator                                                         *)

citation_markers ==
  << << "T", "a", "b", "l", "e" >>, << "S", "e", "c", "t", "i", "o", "n" >>, << "R", "o", "w" >> >>

ConfidenceCited == << 8, 10 >>
ConfidencePlain == << 5, 10 >>

\* AnswerGenerator._estimate_confidence
EstimateConfidence(a) ==
  IF AnyKeywordIn(citation_markers, a) THEN ConfidenceCited ELSE ConfidencePlain

MaxPromptEvidence == 5

\* AnswerGenerator._build_prompt: the header lines of the first five pieces
\* of evidence, or the KeyError of a piece without the metadata its header
\* takes.
RECURSIVE PromptHeaders(_)
PromptHeaders(ev) ==
  IF ev = <<>> THEN [error |-> "none", lines |-> <<>>]
  ELSE LET meta == Head(ev).metadata
           rest == PromptHeaders(Tail(ev))
           needed == IF meta.content_type = "table"
                     THEN { "ticker", "fiscal_year", "table_id", "row_idx" }
                     ELSE { "ticker", "fiscal_year" }
       IN  IF ~(needed \subseteq DOMAIN meta)
           THEN [error |-> "KeyError", lines |-> <<>>]
           ELSE IF rest.error # "none" THEN rest
           ELSE [error |-> "none",
                 lines |-> << IF meta.content_type = "table"
                              THEN "[TABLE]" ELSE "[TEXT]" >> \o rest.lines]

BuildPrompt(ev) == PromptHeaders(SliceTo(ev, MaxPromptEvidence))

error_openai == << "E", "r", "r", "o", "r", " ", "g", "e", "n", "e", "r", "a", "t", "i", "n", "g", " ", "a", "n", "s", "w", "e", "r", ":", " " >>
error_ollama == << "E", "r", "r", "o", "r", " ", "g", "e", "n", "e", "r", "a", "t", "i", "n", "g", " ", "a", "n", "s", "w", "e", "r", " ", "w", "i", "t", "h", " ", "O", "l", "l", "a", "m", "a", ":", " " >>
error_status == << "O", "l", "l", "a", "m", "a", " ", "e", "r", "r", "o", "r", " ", "(", "s", "t", "a", "t", "u", "s", " ", "5", "0", "0", ")", ":", " " >>
no_response  == << "N", "o", " ", "r", "e", "s", "p", "o", "n", "s", "e", " ", "g", "e", "n", "e", "r", "a", "t", "e", "d" >>

HttpOk == 200

\* AnswerGenerator._generate_openai: the text of the completion, or the
\* message of the exception in its place.
GenerateOpenai(reply) ==
  IF reply.kind = "exception"
  THEN [error |-> "none", answer |-> error_openai \o reply.text]
  ELSE [error |-> "none", answer |-> reply.text]

\* AnswerGenerator._generate_ollama: the 'response' of the reply, a default
\* without one, the status and body of a reply that is not 200, or the
\* message of an exception of the post or of response.json().
GenerateOllama(reply) ==
  IF reply.kind = "exception"
  THEN [error |-> "none", answer |-> error_ollama \o reply.text]
  ELSE IF reply.status = HttpOk
  THEN IF reply.kind = "bad_json"
       THEN [error |-> "none", answer |-> error_ollama \o reply.text]
       ELSE IF reply.kind = "no_response_key"
       THEN [error |-> "none", answer |-> no_response]
       ELSE [error |-> "none", answer |-> reply.text]
  ELSE [error |-> "none", answer |-> error_status \o reply.text]

\* AnswerGenerator._generate_local: the constructor leaves self.model None.
GenerateLocal(reply) ==
  [error |-> "ValueError", answer |-> <<>>]

\* AnswerGenerator.generate
Generate ==
  /\ gen_result = Nothing
  /\ LET prompt == BuildPrompt(gen_evidence)
         reply == Value(backend_reply)
         out == IF backend = "openai" THEN GenerateOpenai(reply)
                ELSE IF backend = "ollama" THEN GenerateOllama(reply)
                ELSE GenerateLocal(reply)
     IN  gen_result' =
           IF prompt.error # "none"
           THEN Some([kind |-> "raised", error |-> prompt.error])
           ELSE IF out.error # "none"
           THEN Some([kind |-> "raised", error |-> out.error])
           ELSE Some([kind |-> "returned", answer |-> out.answer,
                      confidence |-> EstimateConfidence(out.answer)])
  /\ UNCHANGED <<backend, backend_reply, gen_evidence,
                 router_vars, merge_vars, fuse_vars, retriever_vars,
                 verifier_vars, builder_vars, prev_vars, store_vars,
                 metrics_vars, chunker_vars>>

---------------------------------------------------------------------------
(* Specifications                                                          *)

MergeIdle     == dense_in = <<>> /\ bm25_in = <<>> /\ merged_out = Nothing
FuseIdle      == /\ searcher = Nothing /\ fuse_dense = <<>> /\ fuse_bm25 = <<>>
                 /\ fuse_top_k = 0 /\ fuse_out = Nothing
RetrieverIdle == /\ section_index = <<>> /\ text_index = <<>> /\ table_index = <<>>
                 /\ section_data = Nothing /\ text_data = Nothing
                 /\ table_data = Nothing
                 /\ pc = "idle" /\ call = Nothing
                 /\ section_hits = <<>> /\ dense_hits = <<>> /\ compiled = <<>>
                 /\ sections = <<>> /\ content = <<>> /\ error = "none"
                 /\ encodes = 0
RouterIdle    == query = <<>> /\ route_info = Nothing
VerifierIdle  == /\ tolerance = Nothing /\ answer = <<>> /\ evidence = <<>>
                 /\ verify_query = <<>>
                 /\ answer_numbers = <<>> /\ evidence_numbers = <<>>
                 /\ calc_type = "none" /\ status = "none"
                 /\ extract_text = <<>> /\ numbers = Nothing
                 /\ arg_num1 = RatZero /\ arg_num2 = RatZero /\ matched = Nothing
BuilderIdle   == /\ embeddings = <<>> /\ index_type = "" /\ faiss_index = Nothing
                 /\ build_error = "none"
PrevIdle      == prev_call = Nothing /\ prev_hits = <<>> /\ prev_content = <<>>
StoreIdle     == /\ versions = <<>> /\ current = 0 /\ rebuild_lock = Nothing
                 /\ rebuilds = <<>> /\ reader = Nothing
GeneratorIdle == /\ backend = "" /\ backend_reply = Nothing
                 /\ gen_evidence = <<>> /\ gen_result = Nothing
MetricsIdle   == /\ metric_retrieved = <<>> /\ metric_relevant = {}
                 /\ recall_at = {}
ChunkerIdle   == /\ chunk_size = 0 /\ chunk_overlap = 0
                 /\ respect_sentence_boundaries = FALSE
                 /\ chunk_input = <<>> /\ chunk_pc = "idle"
                 /\ words = <<>> /\ start_idx = 0 /\ chunks_out = <<>>
OthersIdle    == /\ PrevIdle /\ StoreIdle /\ GeneratorIdle /\ MetricsIdle
                 /\ ChunkerIdle

RouterInit ==
  /\ OthersIdle
  /\ query \in Queries
  /\ route_info = Nothing
  /\ MergeIdle /\ FuseIdle /\ RetrieverIdle /\ VerifierIdle /\ BuilderIdle

RouterNext == Route

RouterSpec == RouterInit /\ [][RouterNext]_vars

\* The longest result list handed to a fusion.
MaxListLen == 2

SeqsUpTo(S, n) == UNION { [1..m -> S] : m \in 0..n }

\* Results as the retriever hands them to _merge_results: two contents share
\* their first 50 characters, scores are 0.9 and 0.4.
MergeItems ==
  [ content  : { [prefix |-> "rev", rest |-> ""], [prefix |-> "rev", rest |-> "x"],
                 [prefix |-> "cost", rest |-> ""] },
    metadata : { [content_type |-> "text"] },
    score    : { <<9, 10>>, <<2, 5>> } ]

\* Results as a caller hands them to fuse_results: with an 'id', or without
\* one ("").
FuseItems ==
  { [id |-> "a", content |-> "x", score |-> RatOne],
    [id |-> "b", content |-> "x", score |-> RatOne],
    [id |-> "",  content |-> "x", score |-> RatOne] }

\* The weights a searcher is constructed with: the defaults, and whole numbers.
MaxWeight == 1
WeightPairs ==
  { <<DefaultDenseWeight, DefaultBm25Weight>> } \cup
  { << <<a, 1>>, <<b, 1>> >> : a \in 0..MaxWeight, b \in 0..MaxWeight }

MaxTopK == 2

MergeInit ==
  /\ OthersIdle
  /\ RouterIdle /\ FuseIdle /\ RetrieverIdle /\ VerifierIdle /\ BuilderIdle
  /\ dense_in \in SeqsUpTo(MergeItems, MaxListLen)
  /\ bm25_in \in SeqsUpTo(MergeItems, MaxListLen)
  /\ merged_out = Nothing

MergeNext == Merge

MergeSpec == MergeInit /\ [][MergeNext]_vars

FuseInit ==
  /\ OthersIdle
  /\ RouterIdle /\ MergeIdle /\ RetrieverIdle /\ VerifierIdle /\ BuilderIdle
  /\ fuse_dense \in SeqsUpTo(FuseItems, MaxListLen)
  /\ fuse_bm25 \in SeqsUpTo(FuseItems, MaxListLen)
  /\ searcher = Nothing /\ fuse_top_k = 0 /\ fuse_out = Nothing

FuseNext ==
  \/ \E w \in WeightPairs : Construct(w[1], w[2])
  \/ \E k \in 0..MaxTopK : Fuse(k)

FuseSpec == FuseInit /\ [][FuseNext]_vars

\* The corpora a retriever is constructed with.  The embedding of a content
\* unit is one number; the dense index of a corpus holds the embeddings of its
\* units, position by position (IndexBuilder.build_faiss_index adds them all).
MaxChunks == 2
MaxRows == 3
MaxSections == 2
MaxK == 2

TextContents == { [prefix |-> "a", rest |-> ""], [prefix |-> "b", rest |-> ""] }
RowPrefixes == << "r1", "r2", "r3", "r4", "r5" >>
SectionTitles == << "Item 1", "Item 7", "Item 8", "Item 9" >>

Embed(c) ==
  CASE c.prefix = "a" -> 0
    [] c.prefix = "b" -> 2
    [] OTHER -> (CHOOSE i \in 1..Len(RowPrefixes) : RowPrefixes[i] = c.prefix) - 1

TextData ==
  { [ chunks   |-> chunks,
      metadata |-> [i \in 1..Len(chunks) |-> [content_type |-> "text", id |-> i - 1]],
      bm25     |-> b ]
    : chunks \in SeqsUpTo(TextContents, MaxChunks), b \in {"absent", "None", "built"} }

TableData ==
  { [ has_sentences |-> h,
      sentences |-> [i \in 1..n |-> [prefix |-> RowPrefixes[i], rest |-> ""]],
      metadata  |-> [i \in 1..n |-> [content_type |-> "table", id |-> i - 1]],
      bm25      |-> b ]
    : h \in BOOLEAN, n \in 0..MaxRows, b \in {"absent", "None", "built"} }

SectionData ==
  { [ abstracts |-> [i \in 1..n |-> SectionTitles[i]],
      metadata  |-> [i \in 1..n |-> [ticker |-> "ACME", fiscal_year |-> "2023",
                                     section_title |-> SectionTitles[i]]] ]
    : n \in 0..MaxSections }

\* A lexical index exists for a corpus with documents only (BM25Okapi cannot
\* be built over none), and is None only where there was nothing to build.
Bm25Consistent(documents, b) ==
  IF Len(documents) = 0 THEN b \in {"absent", "None"} ELSE b \in {"absent", "built"}

\* The queries: the embedding of the query and its lower-cased tokens.
RetrieverQueries ==
  { [vec |-> 0, tokens |-> {"b", "r2"}],
    [vec |-> 1, tokens |-> {"a", "r1"}],
    [vec |-> 2, tokens |-> {}] }

Init ==
  /\ OthersIdle
  /\ RouterIdle /\ MergeIdle /\ FuseIdle /\ VerifierIdle /\ BuilderIdle
  /\ text_data \in TextData
  /\ Bm25Consistent(text_data.chunks, text_data.bm25)
  /\ table_data \in TableData
  /\ ~table_data.has_sentences => Len(table_data.sentences) = 0
  /\ Bm25Consistent(table_data.sentences, table_data.bm25)
  /\ section_data \in SectionData
  \* every content unit carries the section it was cut from
  /\ (Len(text_data.chunks) > 0 \/ Len(table_data.sentences) > 0)
       => Len(section_data.abstracts) > 0
  /\ section_index = [i \in 1..Len(section_data.abstracts) |-> i - 1]
  /\ text_index = [i \in 1..Len(text_data.chunks) |-> Embed(text_data.chunks[i])]
  /\ table_index = [i \in 1..Len(table_data.sentences) |-> Embed(table_data.sentences[i])]
  /\ pc = "idle" /\ call = Nothing
  /\ section_hits = <<>> /\ dense_hits = <<>> /\ compiled = <<>>
  /\ sections = <<>> /\ content = <<>> /\ error = "none" /\ encodes = 0

Next ==
  \/ \E q \in RetrieverQueries, tc \in BOOLEAN, ks \in 1..MaxK, k \in 1..MaxK,
        h \in BOOLEAN : Retrieve(q, tc, ks, k, h)
  \/ StageA
  \/ StageB

Spec == Init /\ [][Next]_vars

\* Two calls in a row on one retriever, over corpora of at most two text
\* chunks and two table sentences and at least one section.
TwoCallInit ==
  /\ Init
  /\ Len(text_data.chunks) <= 2
  /\ Len(table_data.sentences) <= 2
  /\ Len(section_data.abstracts) >= 1

TwoCallNext ==
  \/ \E q \in RetrieverQueries, tc \in BOOLEAN, ks \in 1..MaxK, k \in 1..MaxK,
        h \in BOOLEAN : Retrieve(q, tc, ks, k, h)
  \/ StageA
  \/ StageB
  \/ \E ks \in 1..MaxK : Again(ks)

TwoCallSpec == TwoCallInit /\ [][TwoCallNext]_vars

\* The rankings, the relevant sets and the cutoffs of compute_recall_at_k.
MetricItems == { "d1", "d2", "d3" }

MaxRetrieved == 3
MaxCutoff == 3

MetricsInit ==
  /\ RouterIdle /\ MergeIdle /\ FuseIdle /\ RetrieverIdle /\ VerifierIdle
  /\ BuilderIdle /\ PrevIdle /\ StoreIdle /\ GeneratorIdle /\ ChunkerIdle
  /\ metric_retrieved \in SeqsUpTo(MetricItems, MaxRetrieved)
  /\ metric_relevant \in SUBSET MetricItems
  /\ recall_at = {}

MetricsNext == \E k \in 0..MaxCutoff : ComputeRecall(k)

MetricsSpec == MetricsInit /\ [][MetricsNext]_vars

\* The texts extract_numbers is called on: up to MaxTextWords words, joined
\* by single spaces.
ExtractWords ==
  { << "5" >>,
    << "5", "M" >>,
    << "5", "m" >>,
    << "5", "M", "i", "l", "l", "i", "o", "n" >>,
    << "5", "m", "i", "l", "l", "i", "o", "n" >>,
    << "2", "B" >>,
    << "2", "b" >>,
    << "2", "B", "i", "l", "l", "i", "o", "n" >>,
    << "2", "b", "i", "l", "l", "i", "o", "n" >>,
    << "4", "t", "h", "o", "u", "s", "a", "n", "d" >>,
    << "4", "T", "h", "o", "u", "s", "a", "n", "d" >>,
    << "-", "1", ".", "5", "M" >>,
    << "7", "." >>,
    << "x" >>,
    << "-" >> }

MaxTextWords == 2

RECURSIVE JoinWords(_)
JoinWords(ws) ==
  IF ws = <<>> THEN <<>>
  ELSE IF Len(ws) = 1 THEN Head(ws)
  ELSE Head(ws) \o << " " >> \o JoinWords(Tail(ws))

ExtractTexts == { JoinWords(ws) : ws \in SeqsUpTo(ExtractWords, MaxTextWords) }

ExtractInit ==
  /\ OthersIdle
  /\ RouterIdle /\ MergeIdle /\ FuseIdle /\ RetrieverIdle /\ BuilderIdle
  /\ tolerance = Nothing /\ answer = <<>> /\ evidence = <<>>
  /\ verify_query = <<>> /\ answer_numbers = <<>> /\ evidence_numbers = <<>>
  /\ calc_type = "none" /\ status = "none"
  /\ arg_num1 = RatZero /\ arg_num2 = RatZero /\ matched = Nothing
  /\ extract_text \in ExtractTexts
  /\ numbers = Nothing

ExtractNext == Extract

ExtractSpec == ExtractInit /\ [][ExtractNext]_vars

\* The tolerances a verifier is constructed with: the default and 10%.
Tolerances == { DefaultTolerance, << 1, 10 >> }

\* The numbers _numbers_match is called on: hundredths and whole numbers
\* around 0 and around 100.
MaxOffset == 2

MatchNumbers ==
  { Rat(n, 100) : n \in (-MaxOffset)..MaxOffset }
    \cup { RatOfInt(n) : n \in (-MaxOffset)..MaxOffset }
    \cup { RatOfInt(100 + n) : n \in (-MaxOffset)..MaxOffset }
    \cup { RatOfInt(10), RatOfInt(90), RatOfInt(110), RatOfInt(-100), RatOfInt(-99) }

MatchInit ==
  /\ OthersIdle
  /\ RouterIdle /\ MergeIdle /\ FuseIdle /\ RetrieverIdle /\ BuilderIdle
  /\ answer = <<>> /\ evidence = <<>>
  /\ verify_query = <<>> /\ answer_numbers = <<>> /\ evidence_numbers = <<>>
  /\ calc_type = "none" /\ status = "none"
  /\ extract_text = <<>> /\ numbers = Nothing
  /\ tolerance \in { Some(t) : t \in Tolerances }
  /\ arg_num1 \in MatchNumbers
  /\ arg_num2 \in MatchNumbers
  /\ matched = Nothing

MatchNext == Match

MatchSpec == MatchInit /\ [][MatchNext]_vars

\* The answers, the queries and the evidence contents verify is called on.
Answers ==
  { << "t", "h", "e", " ", "d", "e", "c", "r", "e", "a", "s", "e", " ", "w", "a", "s", " ", "1", "0" >>,
    << "1", "0", "0" >>,
    << "1", "0", "0", " ", "a", "n", "d", " ", "9", "0" >>,
    << "1", ".", "5" >>,
    << "5", "0" >>,
    << "0" >>,
    << "-", "1", "0" >>,
    << "n", "o", "n", "e" >>,
    << "1", "0", " ", "a", "n", "d", " ", "7" >>,
    << "5" >> }

VerifyQueries ==
  { << "w", "h", "a", "t", " ", "c", "h", "a", "n", "g", "e", "d" >>,
    << "r", "a", "t", "i", "o" >>,
    << "g", "r", "o", "w", "t", "h", " ", "i", "n", " ", "%" >>,
    << "p", "e", "r", "c", "e", "n", "t", " ", "g", "r", "o", "w", "t", "h" >>,
    << "r", "e", "v", "e", "n", "u", "e" >>,
    << "Y", "O", "Y" >>,
    << "I", "n", "c", "r", "e", "a", "s", "e", " ", "p", "e", "r", " ", "s", "h", "a", "r", "e" >> }

EvidenceContents ==
  { << "1", "0", "0", " ", "9", "0" >>,
    << "1", "0", "0", ".", "5" >>,
    << "1", "0", "0", " ", "1", "5", "0" >>,
    << "0", " ", "5" >> }

EvidencePieces ==
  { [content |-> c, metadata |-> [content_type |-> t]] :
      c \in EvidenceContents, t \in { "table", "text" } }

MaxEvidence == 2

VerifierInit ==
  /\ OthersIdle
  /\ RouterIdle /\ MergeIdle /\ FuseIdle /\ RetrieverIdle /\ BuilderIdle
  /\ extract_text = <<>> /\ numbers = Nothing
  /\ arg_num1 = RatZero /\ arg_num2 = RatZero /\ matched = Nothing
  /\ tolerance \in { Some(t) : t \in Tolerances }
  /\ answer \in Answers
  /\ evidence \in SeqsUpTo(EvidencePieces, MaxEvidence)
  /\ verify_query \in VerifyQueries
  /\ answer_numbers = <<>> /\ evidence_numbers = <<>>
  /\ calc_type = "none" /\ status = "none"

VerifierNext == Verify

VerifierSpec == VerifierInit /\ [][VerifierNext]_vars

\* The arrays of embeddings and the index kinds build_faiss_index is called on.
MaxVectors == 3

IndexTypes == { "flat", "ivf", "hnsw", "lsh", "FLAT", "" }

BuilderInit ==
  /\ OthersIdle
  /\ RouterIdle /\ MergeIdle /\ FuseIdle /\ RetrieverIdle /\ VerifierIdle
  /\ embeddings \in SeqsUpTo(0..2, MaxVectors)
  /\ index_type \in IndexTypes
  /\ faiss_index = Nothing /\ build_error = "none"

BuilderNext == Build

BuilderSpec == BuilderInit /\ [][BuilderNext]_vars

\* What the backend of a generator may do with a call: the client of OpenAI
\* completes or raises; the post to Ollama answers 200 with a response,
\* without one or with a body that is no JSON, answers 500, or raises (the
\* timeout of 60 s among the exceptions); the local model is not loaded.
BackendReplies(b) ==
  IF b = "openai"
  THEN { [kind |-> "ok", status |-> 200, text |-> << "T", "a", "b", "l", "e", " ", "3", ",", " ", "R", "o", "w", " ", "2", ":", " ", "1", "0", "0" >>],
         [kind |-> "ok", status |-> 200, text |-> << "a", "b", "o", "u", "t", " ", "1", "0", "0" >>],
         [kind |-> "exception", status |-> 0, text |-> << "R", "e", "q", "u", "e", "s", "t", " ", "t", "i", "m", "e", "d", " ", "o", "u", "t" >>],
         [kind |-> "exception", status |-> 0, text |-> << "R", "o", "w", "s", " ", "e", "x", "c", "e", "e", "d", "e", "d" >>] }
  ELSE IF b = "ollama"
  THEN { [kind |-> "ok", status |-> 200, text |-> << "S", "e", "c", "t", "i", "o", "n", " ", "7", ":", " ", "1", "0", "0" >>],
         [kind |-> "ok", status |-> 200, text |-> << "a", "b", "o", "u", "t", " ", "1", "0", "0" >>],
         [kind |-> "no_response_key", status |-> 200, text |-> <<>>],
         [kind |-> "bad_json", status |-> 200, text |-> << "E", "x", "p", "e", "c", "t", "i", "n", "g", " ", "v", "a", "l", "u", "e" >>],
         [kind |-> "ok", status |-> 500, text |-> << "m", "o", "d", "e", "l", " ", "n", "o", "t", " ", "f", "o", "u", "n", "d" >>],
         [kind |-> "exception", status |-> 0, text |-> << "R", "e", "a", "d", " ", "t", "i", "m", "e", "d", " ", "o", "u", "t" >>] }
  ELSE { [kind |-> "unloaded", status |-> 0, text |-> <<>>] }

\* Evidence handed to generate: a text piece, a table piece, and a table
\* piece whose metadata lacks table_id and row_idx.
GenEvidencePieces ==
  { [content |-> << "R", "e", "v", "e", "n", "u", "e", " ", "g", "r", "e", "w" >>,
     metadata |-> [content_type |-> "text", ticker |-> "ACME",
                   fiscal_year |-> "2023"]],
    [content |-> << "1", "0", "0", " ", "9", "0" >>,
     metadata |-> [content_type |-> "table", ticker |-> "ACME",
                   fiscal_year |-> "2023", table_id |-> "t1", row_idx |-> 2]],
    [content |-> << "1", "0", "0", " ", "9", "0" >>,
     metadata |-> [content_type |-> "table", ticker |-> "ACME",
                   fiscal_year |-> "2023"]] }

GeneratorInit ==
  /\ RouterIdle /\ MergeIdle /\ FuseIdle /\ RetrieverIdle /\ VerifierIdle
  /\ BuilderIdle /\ PrevIdle /\ StoreIdle /\ MetricsIdle /\ ChunkerIdle
  /\ backend \in { "openai", "ollama", "local" }
  /\ backend_reply \in { Some(r) : r \in BackendReplies(backend) }
  /\ gen_evidence \in SeqsUpTo(GenEvidencePieces, MaxEvidence)
  /\ gen_result = Nothing

GeneratorNext == Generate

GeneratorSpec == GeneratorInit /\ [][GeneratorNext]_vars

---------------------------------------------------------------------------
(* TextChunker.chunk_text                                                  *)
(* A text is a sequence of characters; the only white space is the space.  *)
(* The loop of chunk_text is taken one iteration at a time.                *)

\* str.strip() leaves nothing
Blank(s) == \A i \in 1..Len(s) : s[i] = " "

\* str.split()
RECURSIVE SplitFrom(_, _, _)
SplitFrom(s, i, cur) ==
  IF i > Len(s) THEN (IF cur = <<>> THEN <<>> ELSE << cur >>)
  ELSE IF s[i] = " "
  THEN (IF cur = <<>> THEN <<>> ELSE << cur >>) \o SplitFrom(s, i + 1, <<>>)
  ELSE SplitFrom(s, i + 1, Append(cur, s[i]))

SplitWords(s) == SplitFrom(s, 1, <<>>)

\* list[a:b] of Python, negative positions counted from the end
SlicePosition(n, len) ==
  IF n < 0 THEN (IF n + len < 0 THEN 0 ELSE n + len) ELSE Min(n, len)

PySlice(list, a, b) ==
  LET from == SlicePosition(a, Len(list))
      to == SlicePosition(b, Len(list))
  IN  IF from >= to THEN <<>> ELSE SubSeq(list, from + 1, to)

\* str.rfind of one character: the last position (from 0) or -1
RFind(s, c) ==
  LET at == { i \in 1..Len(s) : s[i] = c }
  IN  IF at = {} THEN -1 ELSE (CHOOSE i \in at : \A j \in at : j <= i) - 1

Max3(a, b, c) ==
  LET ab == IF a >= b THEN a ELSE b IN IF ab >= c THEN ab ELSE c

\* a step that always moves forward
NextStartForward(start, size, overlap) ==
  start + (IF size - overlap >= 1 THEN size - overlap ELSE 1)

\* start_idx += self.chunk_size - self.chunk_overlap
NextStart(start, size, overlap) == start + size - overlap

MaxChunkWords == 3
MaxChunkSize == 3

\* The iterations of the loop a behaviour follows; more than any text of
\* MaxChunkWords words needs when the start index advances.
MaxIterations == MaxChunkWords + 1

\* chunk_text up to the loop: a blank text returns [], any other is split
EnterChunkText(t) ==
  /\ chunk_pc = "ready"
  /\ chunk_input' = t
  /\ IF t = <<>> \/ Blank(t)
     THEN /\ chunk_pc' = "done"
          /\ UNCHANGED words
     ELSE /\ chunk_pc' = "loop"
          /\ words' = SplitWords(t)
  /\ start_idx' = 0
  /\ chunks_out' = <<>>
  /\ UNCHANGED <<chunk_size, chunk_overlap, respect_sentence_boundaries,
                 router_vars, merge_vars, fuse_vars, retriever_vars,
                 verifier_vars, builder_vars, prev_vars, store_vars,
                 generator_vars, metrics_vars>>

\* one iteration of the while loop: the slice of chunk_size words, cut back
\* to its last sentence boundary when the boundary lies past the middle of
\* the slice and the slice does not end the text; the chunk; the advance.
\* Each local of the iteration is bound once, in the order of the code.
ChunkStep ==
  /\ chunk_pc = "loop"
  /\ start_idx < Len(words)
  /\ Len(chunks_out) < MaxIterations
  /\ \E end_idx \in { Min(start_idx + chunk_size, Len(words)) } :
     \E slice \in { PySlice(words, start_idx, end_idx) } :
     \E chunk_text \in { JoinWords(slice) } :
     \E last_boundary \in { Max3(RFind(chunk_text, "."),
                                 RFind(chunk_text, "?"),
                                 RFind(chunk_text, "!")) } :
     \E chunk_words \in
          { IF /\ respect_sentence_boundaries
               /\ end_idx < Len(words)
               /\ 2 * last_boundary > Len(chunk_text)
            THEN SplitWords(SubSeq(chunk_text, 1, last_boundary + 1))
            ELSE slice } :
       chunks_out' = Append(chunks_out,
         [text |-> JoinWords(chunk_words),
          chunk_id |-> Len(chunks_out),
          start_word_idx |-> start_idx,
          end_word_idx |-> start_idx + Len(chunk_words)])
  /\ start_idx' = NextStart(start_idx, chunk_size, chunk_overlap)
  /\ UNCHANGED <<chunk_size, chunk_overlap, respect_sentence_boundaries,
                 chunk_input, chunk_pc, words,
                 router_vars, merge_vars, fuse_vars, retriever_vars,
                 verifier_vars, builder_vars, prev_vars, store_vars,
                 generator_vars, metrics_vars>>

\* the loop condition fails: return chunks
ChunkReturn ==
  /\ chunk_pc = "loop"
  /\ ~(start_idx < Len(words))
  /\ chunk_pc' = "done"
  /\ UNCHANGED <<chunk_size, chunk_overlap, respect_sentence_boundaries,
                 chunk_input, words, start_idx, chunks_out,
                 router_vars, merge_vars, fuse_vars, retriever_vars,
                 verifier_vars, builder_vars, prev_vars, store_vars,
                 generator_vars, metrics_vars>>

ChunkVocabulary ==
  { << "a", "a", "a", "a", "." >>, << "c" >>, << "d", "?" >> }

ChunkTexts ==
  { JoinWords(ws) : ws \in SeqsUpTo(ChunkVocabulary, MaxChunkWords) }
    \cup { << " " >>, << " ", " " >> }

ChunkerInit ==
  /\ RouterIdle /\ MergeIdle /\ FuseIdle /\ RetrieverIdle /\ VerifierIdle
  /\ BuilderIdle /\ PrevIdle /\ StoreIdle /\ GeneratorIdle /\ MetricsIdle
  /\ chunk_size \in 1..MaxChunkSize
  /\ chunk_overlap \in 0..MaxChunkSize
  /\ respect_sentence_boundaries \in BOOLEAN
  /\ chunk_input = <<>>
  /\ chunk_pc = "ready"
  /\ words = <<>>
  /\ start_idx = 0
  /\ chunks_out = <<>>

ChunkerNext ==
  \/ \E t \in ChunkTexts : EnterChunkText(t)
  \/ ChunkStep
  \/ ChunkReturn

ChunkerSpec == ChunkerInit /\ [][ChunkerNext]_vars

\* chunk_text runs in one thread that is never suspended for good.
ChunkerFairSpec == ChunkerSpec /\ WF_vars(ChunkerNext)

---------------------------------------------------------------------------
(* The index store: rebuilds and searches                                  *)
(* A rebuild embeds the documents of a corpus, builds the dense index with *)
(* build_faiss_index and the lexical index with build_bm25_index, and      *)
(* constructs a HierarchicalRetriever over them: one version.  The steps   *)
(* of build_faiss_index are taken one at a time and index.add one vector   *)
(* at a time, so that a search may fall between any two of them.  The      *)
(* rebuild lock and the publication of a version are those of the          *)
(* specification of the system.  A retrieve call reads the attributes of   *)
(* the retriever it was called on, one read per step.                      *)

Builders == { 1, 2 }

MaxDocs == 2
MaxVersions == 2

\* The documents of the corpus, in order: the first has no word.
Document(i) == JoinWords([j \in 1..(i - 1) |-> << "W" >>])

Corpus(n) == [i \in 1..n |-> Document(i)]

\* EmbeddingGenerator.encode: one embedding for each text
EmbedDocuments(docs) == [i \in 1..Len(docs) |-> Len(docs[i])]

\* a tokenization that leaves out documents without a token
TokenizedDocsNonEmpty(docs) ==
  LET RECURSIVE Keep(_)
      Keep(ds) ==
        IF ds = <<>> THEN <<>>
        ELSE IF SplitWords(Lower(Head(ds))) = <<>> THEN Keep(Tail(ds))
        ELSE << SplitWords(Lower(Head(ds))) >> \o Keep(Tail(ds))
  IN  Keep(docs)

\* tokenized_docs = [tokenizer(doc) for doc in documents], with the default
\* tokenizer x.lower().split()
TokenizedDocs(docs) == [i \in 1..Len(docs) |-> SplitWords(Lower(docs[i]))]

\* IndexBuilder.build_bm25_index: the corpus BM25Okapi is made of
BuildBm25Index(docs) == TokenizedDocs(docs)

StoreIndexTypes == { "flat", "ivf" }

\* The index build_faiss_index creates, before training and before add.
NewIndex(kind) ==
  IF kind = "flat"
  THEN [kind |-> "IndexFlatL2", trained |-> TRUE, vectors |-> <<>>]
  ELSE [kind |-> "IndexIVFFlat", trained |-> FALSE, vectors |-> <<>>]

NoIndex == [kind |-> "", trained |-> FALSE, vectors |-> <<>>]

IdleRebuild ==
  [pc |-> "idle", documents |-> <<>>, kind |-> "", embeddings |-> <<>>,
   index |-> NoIndex, bm25 |-> <<>>, version |-> 0]

\* index.add has begun
AddStarted(r) == Len(r.index.vectors) >= 1

\* index.add(embeddings) has added every embedding
AddComplete(r) == Len(r.index.vectors) = Len(r.embeddings)

\* The metadata array of a corpus: one entry for each document.
MetadataOf(docs) == [i \in 1..Len(docs) |-> [content_type |-> "text", id |-> i - 1]]

\* HierarchicalRetriever.__init__ for the text level: the attributes of the
\* new object.
NewRetriever(index, docs, bm25) ==
  [text_index |-> index,
   text_data |-> [chunks |-> docs, metadata |-> MetadataOf(docs), bm25 |-> bm25]]

\* A rebuild begins: it takes the rebuild lock and a corpus, and embeds the
\* documents.
BeginRebuild(b, n, kind) ==
  /\ rebuilds[b].pc = "idle"
  /\ rebuild_lock = Nothing
  /\ Len(versions) < MaxVersions
  /\ rebuild_lock' = Some(b)
  /\ rebuilds' = [rebuilds EXCEPT ![b] =
       [IdleRebuild EXCEPT !.pc = "embedded", !.documents = Corpus(n),
                           !.kind = kind,
                           !.embeddings = EmbedDocuments(Corpus(n))]]
  /\ UNCHANGED <<versions, current, reader,
                 router_vars, merge_vars, fuse_vars, retriever_vars,
                 verifier_vars, builder_vars, prev_vars, generator_vars,
                 metrics_vars, chunker_vars>>

\* build_faiss_index creates the index of the type asked for
CreateIndex(b) ==
  /\ rebuilds[b].pc = "embedded"
  /\ rebuilds' = [rebuilds EXCEPT ![b] =
       [@ EXCEPT !.index = NewIndex(rebuilds[b].kind),
                 !.pc = IF rebuilds[b].kind = "ivf"
                        THEN "training" ELSE "adding"]]
  /\ UNCHANGED <<versions, current, rebuild_lock, reader,
                 router_vars, merge_vars, fuse_vars, retriever_vars,
                 verifier_vars, builder_vars, prev_vars, generator_vars,
                 metrics_vars, chunker_vars>>

\* index.train(embeddings) of the inverted-file index; with nlist = 0 the
\* library either fails or goes on.
TrainIndex(b) ==
  /\ rebuilds[b].pc = "training"
  /\ \/ rebuilds' = [rebuilds EXCEPT ![b] =
          [@ EXCEPT !.index = [@ EXCEPT !.trained = TRUE], !.pc = "adding"]]
     \/ /\ Nlist(rebuilds[b].embeddings) = 0
        /\ rebuilds' = [rebuilds EXCEPT ![b] = [@ EXCEPT !.pc = "failed"]]
  /\ UNCHANGED <<versions, current, rebuild_lock, reader,
                 router_vars, merge_vars, fuse_vars, retriever_vars,
                 verifier_vars, builder_vars, prev_vars, generator_vars,
                 metrics_vars, chunker_vars>>

\* index.add(embeddings), one vector
AddVector(b) ==
  /\ rebuilds[b].pc = "adding"
  /\ Len(rebuilds[b].index.vectors) < Len(rebuilds[b].embeddings)
  /\ rebuilds' = [rebuilds EXCEPT ![b] =
       [@ EXCEPT !.index =
          [@ EXCEPT !.vectors =
             Append(@, rebuilds[b].embeddings[Len(@) + 1])]]]
  /\ UNCHANGED <<versions, current, rebuild_lock, reader,
                 router_vars, merge_vars, fuse_vars, retriever_vars,
                 verifier_vars, builder_vars, prev_vars, generator_vars,
                 metrics_vars, chunker_vars>>

\* index.add has returned; build_faiss_index returns the index
ReturnIndex(b) ==
  /\ rebuilds[b].pc = "adding"
  /\ AddComplete(rebuilds[b])
  /\ rebuilds' = [rebuilds EXCEPT ![b] = [@ EXCEPT !.pc = "built"]]
  /\ UNCHANGED <<versions, current, rebuild_lock, reader,
                 router_vars, merge_vars, fuse_vars, retriever_vars,
                 verifier_vars, builder_vars, prev_vars, generator_vars,
                 metrics_vars, chunker_vars>>

\* build_bm25_index over the same documents
BuildLexical(b) ==
  /\ rebuilds[b].pc = "built"
  /\ rebuilds' = [rebuilds EXCEPT ![b] =
       [@ EXCEPT !.bm25 = BuildBm25Index(rebuilds[b].documents), !.pc = "indexed"]]
  /\ UNCHANGED <<versions, current, rebuild_lock, reader,
                 router_vars, merge_vars, fuse_vars, retriever_vars,
                 verifier_vars, builder_vars, prev_vars, generator_vars,
                 metrics_vars, chunker_vars>>

\* HierarchicalRetriever(...) over what was built: a new version
ConstructRetriever(b) ==
  /\ rebuilds[b].pc = "indexed"
  /\ versions' = Append(versions,
       NewRetriever(rebuilds[b].index, rebuilds[b].documents, rebuilds[b].bm25))
  /\ rebuilds' = [rebuilds EXCEPT ![b] =
       [@ EXCEPT !.version = Len(versions) + 1, !.pc = "constructed"]]
  /\ UNCHANGED <<current, rebuild_lock, reader,
                 router_vars, merge_vars, fuse_vars, retriever_vars,
                 verifier_vars, builder_vars, prev_vars, generator_vars,
                 metrics_vars, chunker_vars>>

\* The new version is published in one step and the lock is released.
Publish(b) ==
  /\ rebuilds[b].pc = "constructed"
  /\ current' = rebuilds[b].version
  /\ rebuild_lock' = Nothing
  /\ rebuilds' = [rebuilds EXCEPT ![b] = IdleRebuild]
  /\ UNCHANGED <<versions, reader,
                 router_vars, merge_vars, fuse_vars, retriever_vars,
                 verifier_vars, builder_vars, prev_vars, generator_vars,
                 metrics_vars, chunker_vars>>

\* A rebuild whose training failed gives up: nothing is published.
AbortRebuild(b) ==
  /\ rebuilds[b].pc = "failed"
  /\ rebuild_lock' = Nothing
  /\ rebuilds' = [rebuilds EXCEPT ![b] = IdleRebuild]
  /\ UNCHANGED <<versions, current, reader,
                 router_vars, merge_vars, fuse_vars, retriever_vars,
                 verifier_vars, builder_vars, prev_vars, generator_vars,
                 metrics_vars, chunker_vars>>

\* a read that goes to the version published at the time of the read
ReadFromCurrent(r) == current

\* self.text_index, self.text_data: the attributes of the object the call
\* was made on
ReadFrom(r) == r.self

NoSearch == [kind |-> "", trained |-> FALSE, vectors |-> <<>>]

\* retrieve is called on the retriever that is published
BeginRetrieve ==
  /\ reader = Nothing
  /\ current # 0
  /\ reader' = Some([self |-> current, pc |-> "dense", dense_from |-> 0,
                     searched |-> NoSearch, positions |-> {},
                     data_from |-> 0, addressed |-> FALSE,
                     lexical_from |-> 0, lexical_len |-> 0])
  /\ UNCHANGED <<versions, current, rebuild_lock, rebuilds,
                 router_vars, merge_vars, fuse_vars, retriever_vars,
                 verifier_vars, builder_vars, prev_vars, generator_vars,
                 metrics_vars, chunker_vars>>

\* self.text_index.search: the positions of the vectors of the index
ReaderDense ==
  /\ reader # Nothing
  /\ Value(reader).pc = "dense"
  /\ LET from == ReadFrom(Value(reader))
         idx == versions[from].text_index
     IN  reader' = Some([Value(reader) EXCEPT
           !.pc = "data", !.dense_from = from, !.searched = idx,
           !.positions = 0..(Len(idx.vectors) - 1)])
  /\ UNCHANGED <<versions, current, rebuild_lock, rebuilds,
                 router_vars, merge_vars, fuse_vars, retriever_vars,
                 verifier_vars, builder_vars, prev_vars, generator_vars,
                 metrics_vars, chunker_vars>>

\* self.text_data['chunks'][idx], self.text_data['metadata'][idx]
ReaderContent ==
  /\ reader # Nothing
  /\ Value(reader).pc = "data"
  /\ LET from == ReadFrom(Value(reader))
         data == versions[from].text_data
     IN  reader' = Some([Value(reader) EXCEPT
           !.pc = "lexical", !.data_from = from,
           !.addressed = \A p \in Value(reader).positions :
                            /\ p + 1 \in DOMAIN data.chunks
                            /\ p + 1 \in DOMAIN data.metadata])
  /\ UNCHANGED <<versions, current, rebuild_lock, rebuilds,
                 router_vars, merge_vars, fuse_vars, retriever_vars,
                 verifier_vars, builder_vars, prev_vars, generator_vars,
                 metrics_vars, chunker_vars>>

\* self.text_data['bm25'].get_scores: one score for each document of the
\* lexical corpus
ReaderLexical ==
  /\ reader # Nothing
  /\ Value(reader).pc = "lexical"
  /\ LET from == ReadFrom(Value(reader))
     IN  reader' = Some([Value(reader) EXCEPT
           !.pc = "done", !.lexical_from = from,
           !.lexical_len = Len(versions[from].text_data.bm25)])
  /\ UNCHANGED <<versions, current, rebuild_lock, rebuilds,
                 router_vars, merge_vars, fuse_vars, retriever_vars,
                 verifier_vars, builder_vars, prev_vars, generator_vars,
                 metrics_vars, chunker_vars>>

\* the call returns
EndRetrieve ==
  /\ reader # Nothing
  /\ Value(reader).pc = "done"
  /\ reader' = Nothing
  /\ UNCHANGED <<versions, current, rebuild_lock, rebuilds,
                 router_vars, merge_vars, fuse_vars, retriever_vars,
                 verifier_vars, builder_vars, prev_vars, generator_vars,
                 metrics_vars, chunker_vars>>

StoreInit ==
  /\ RouterIdle /\ MergeIdle /\ FuseIdle /\ RetrieverIdle /\ VerifierIdle
  /\ BuilderIdle /\ PrevIdle /\ GeneratorIdle /\ MetricsIdle /\ ChunkerIdle
  /\ versions = <<>>
  /\ current = 0
  /\ rebuild_lock = Nothing
  /\ rebuilds = [b \in Builders |-> IdleRebuild]
  /\ reader = Nothing

StoreNext ==
  \/ \E b \in Builders :
       \/ \E n \in 1..MaxDocs, kind \in StoreIndexTypes : BeginRebuild(b, n, kind)
       \/ CreateIndex(b)
       \/ TrainIndex(b)
       \/ AddVector(b)
       \/ ReturnIndex(b)
       \/ BuildLexical(b)
       \/ ConstructRetriever(b)
       \/ Publish(b)
       \/ AbortRebuild(b)
  \/ BeginRetrieve
  \/ ReaderDense
  \/ ReaderContent
  \/ ReaderLexical
  \/ EndRetrieve

StoreSpec == StoreInit /\ [][StoreNext]_vars

---------------------------------------------------------------------------
(* Claims about QueryRouter, checked under RouterSpec                      *)

\* kw occurs in q as a substring when letter case is ignored.
OccursIgnoringCase(kw, q) ==
  \E i \in 1..(Len(q) - Len(kw) + 1) :
     Lower(SubSeq(q, i, i + Len(kw) - 1)) = Lower(kw)

\* The distinct keywords of the table keyword set that occur in q.
TableMatches(q) == { kw \in Range(table_keywords) : OccursIgnoringCase(kw, q) }

\* C8: route sets is_table_centric to true if and only if at least 2 distinct
\* keywords of the table keyword set occur in the query as case-insensitive
\* substrings (so exactly 2 matches give true, 1 or 0 matches give false).
C8_TableCentricIffTwoMatches ==
  route_info # Nothing =>
    (Value(route_info).is_table_centric <=> Cardinality(TableMatches(query)) >= 2)

\* A routed query in mixed case with exactly 2 matches, routed table-centric.
C8_Witness ==
  /\ route_info # Nothing
  /\ Cardinality(TableMatches(query)) = 2
  /\ query # Lower(query)
  /\ Value(route_info).is_table_centric

\* The nine math keywords the specification lists.
NineMathKeywords ==
  { <<"c","a","l","c","u","l","a","t","e">>,
    <<"c","o","m","p","u","t","e">>,
    <<"d","i","f","f","e","r","e","n","c","e">>,
    <<"r","a","t","i","o">>,
    <<"p","e","r","c","e","n","t","a","g","e">>,
    <<"c","h","a","n","g","e">>,
    <<"g","r","o","w","t","h">>,
    <<"i","n","c","r","e","a","s","e">>,
    <<"d","e","c","r","e","a","s","e">> }

\* C9: route sets requires_math to true if and only if one of the nine
\* keywords calculate, compute, difference, ratio, percentage, change, growth,
\* increase, decrease occurs in the query; a query whose only keyword is
\* 'total' or 'sum' has requires_math = false.
C9_RequiresMathIffNineKeywords ==
  route_info # Nothing =>
    (Value(route_info).requires_math <=>
       \E kw \in NineMathKeywords : OccursIgnoringCase(kw, query))

\* C10: route raises no error on any query and returns numeric_table when
\* table-centric and math, table_lookup when only table-centric, numeric_text
\* when only math, narrative otherwise, with confidence 0.8 if table-centric
\* else 0.6; the empty string gives narrative with both flags false.
C10_QueryTypeResolution ==
  /\ RouteOf(query).query_type \in
       {"numeric_table", "table_lookup", "numeric_text", "narrative"}
  /\ route_info # Nothing =>
       LET r  == Value(route_info)
           tc == r.is_table_centric
           rm == r.requires_math
       IN  /\ tc /\ rm     => r.query_type = "numeric_table"
           /\ tc /\ ~rm    => r.query_type = "table_lookup"
           /\ ~tc /\ rm    => r.query_type = "numeric_text"
           /\ ~tc /\ ~rm   => r.query_type = "narrative"
           /\ r.confidence = (IF tc THEN 8 ELSE 6)
           /\ query = <<>> =>
                r.query_type = "narrative" /\ ~tc /\ ~rm

\* A routed query that is both table-centric and math, typed numeric_table.
C10_Witness ==
  /\ route_info # Nothing
  /\ Value(route_info).is_table_centric
  /\ Value(route_info).requires_math
  /\ Value(route_info).query_type = "numeric_table"

---------------------------------------------------------------------------
(* Claims about the two fusions, checked under MergeSpec and FuseSpec      *)

\* The positions of a result list that hold the content key.
KeyPositions(list, key) ==
  { i \in 1..Len(list) : ContentKey(list[i].content) = key }

InputKeys == { ContentKey(r.content) : r \in Range(dense_in) \cup Range(bm25_in) }

NonIncreasing(list) ==
  \A i \in 1..Len(list) : \A j \in 1..Len(list) :
     i < j => RatGeq(list[i].score, list[j].score)

\* What the claim gives a key that occurs at most once in each list.
ExpectedWeighted(key) ==
  LET d == KeyPositions(dense_in, key)
      l == KeyPositions(bm25_in, key)
      ds == IF d = {} THEN RatZero
            ELSE RatMul(<<7, 10>>, dense_in[CHOOSE i \in d : TRUE].score)
      ls == IF l = {} THEN RatZero
            ELSE RatMul(<<3, 10>>, bm25_in[CHOOSE i \in l : TRUE].score)
  IN  RatAdd(ds, ls)

\* C5: weighted score fusion with alpha = 0.7: a candidate only in the dense
\* list gets alpha*dense_score, one in both lists alpha*dense_score +
\* (1-alpha)*lexical_score, one only in the lexical list (1-alpha)*lexical_score
\* (a candidate being a key that occurs at most once in a list); the output is
\* in descending order of score; dense 0.9 and lexical 0.4 for one key give 0.75.
C5_WeightedFusion ==
  merged_out # Nothing =>
    LET out == Value(merged_out)
    IN  /\ NonIncreasing(out)
        /\ \A key \in InputKeys :
             (Cardinality(KeyPositions(dense_in, key)) <= 1 /\
              Cardinality(KeyPositions(bm25_in, key)) <= 1)
             => /\ Cardinality(KeyPositions(out, key)) = 1
                /\ \A i \in KeyPositions(out, key) :
                     out[i].score = ExpectedWeighted(key)
        /\ ( /\ Len(dense_in) = 1 /\ Len(bm25_in) = 1
             /\ dense_in[1].content.prefix = "rev" /\ dense_in[1].score = <<9, 10>>
             /\ bm25_in[1].content.prefix = "rev" /\ bm25_in[1].score = <<2, 5>> )
           => Len(out) = 1 /\ out[1].score = <<3, 4>>

\* The merge of dense {"rev": 0.9} with lexical {"rev": 0.4} has returned 0.75.
C5_Witness ==
  /\ merged_out # Nothing
  /\ Len(dense_in) = 1 /\ Len(bm25_in) = 1
  /\ dense_in[1].content.prefix = "rev" /\ dense_in[1].score = <<9, 10>>
  /\ bm25_in[1].content.prefix = "rev" /\ bm25_in[1].score = <<2, 5>>
  /\ Value(merged_out)[1].score = <<3, 4>>

\* The sum of weight * score over every occurrence of the key in the list.
RECURSIVE WeightedSum(_, _, _)
WeightedSum(list, key, weight) ==
  IF list = <<>> THEN RatZero
  ELSE RatAdd(IF ContentKey(Head(list).content) = key
              THEN RatMul(weight, Head(list).score) ELSE RatZero,
              WeightedSum(Tail(list), key, weight))

\* The sum of weight / (rank + 1) over every rank at which the list holds the
\* document, ranks counted from `rank` at the head of the list.
RECURSIVE RankSum(_, _, _, _)
RankSum(list, rank, doc_id, weight) ==
  IF list = <<>> THEN RatZero
  ELSE RatAdd(IF DocId(Head(list)) = doc_id
              THEN RatDiv(weight, <<rank + 1, 1>>) ELSE RatZero,
              RankSum(Tail(list), rank + 1, doc_id, weight))

\* C6: both fusions treat duplicate keys by summation, not replacement: the
\* fused score of a key (content prefix in _merge_results, document id in
\* fuse_results) is the sum of the contributions of all its occurrences,
\* also when it occurs twice within the dense list.
C6_DuplicatesSummed ==
  /\ merged_out # Nothing =>
       \A i \in 1..Len(Value(merged_out)) :
          LET e == Value(merged_out)[i]
              key == ContentKey(e.content)
          IN  e.score = RatAdd(WeightedSum(dense_in, key, <<7, 10>>),
                               WeightedSum(bm25_in, key, <<3, 10>>))
  /\ fuse_out # Nothing =>
       \A i \in 1..Len(Value(fuse_out)) :
          LET e == Value(fuse_out)[i]
          IN  e.score = RatAdd(
                RankSum(fuse_dense, 0, e.doc_id, Value(searcher).dense_weight),
                RankSum(fuse_bm25, 0, e.doc_id, Value(searcher).bm25_weight))

\* The ranks (from 0) at which a list handed to fuse_results holds a document.
DocRanks(list, doc_id) == { r \in 0..(Len(list) - 1) : DocId(list[r + 1]) = doc_id }

FuseInputIds == { DocId(r) : r \in Range(fuse_dense) \cup Range(fuse_bm25) }

\* C7: the constructor normalizes dense_weight and bm25_weight so that they
\* sum to 1; fuse_results scores a document at rank r (from 0) of a list as
\* weight/(r+1), accumulates the scores of both lists by document identity (a
\* document holding one rank of a list), and returns the entries in
\* descending order of fused score, at most top_k of them.
C7_ReciprocalRankFusion ==
  /\ (searcher # Nothing /\ Value(searcher).error = "none") =>
       RatAdd(Value(searcher).dense_weight, Value(searcher).bm25_weight) = RatOne
  /\ fuse_out # Nothing =>
       LET out == Value(fuse_out)
           w   == Value(searcher)
       IN  /\ Len(out) = Min(fuse_top_k, Cardinality(FuseInputIds))
           /\ NonIncreasing(out)
           /\ \A i \in 1..Len(out) : out[i].doc_id \in FuseInputIds
           /\ \A i \in 1..Len(out) : \A j \in 1..Len(out) :
                out[i].doc_id = out[j].doc_id => i = j
           /\ \A i \in 1..Len(out) :
                LET d == DocRanks(fuse_dense, out[i].doc_id)
                    l == DocRanks(fuse_bm25, out[i].doc_id)
                IN  (Cardinality(d) <= 1 /\ Cardinality(l) <= 1) =>
                      out[i].score =
                        RatAdd(IF d = {} THEN RatZero
                               ELSE RatDiv(w.dense_weight, <<(CHOOSE r \in d : TRUE) + 1, 1>>),
                               IF l = {} THEN RatZero
                               ELSE RatDiv(w.bm25_weight, <<(CHOOSE r \in l : TRUE) + 1, 1>>))

\* Weights 1 and 1 were normalized to 1/2 each, and a document at rank 1 of
\* the dense list and rank 0 of the lexical list was fused to 1/4 + 1/2,
\* with more documents scored than top_k lets through.
C7_Witness ==
  /\ searcher # Nothing /\ fuse_out # Nothing
  /\ Value(searcher).dense_weight = <<1, 2>>
  /\ Value(searcher).bm25_weight = <<1, 2>>
  /\ Len(fuse_dense) = 2 /\ Len(fuse_bm25) = 1
  /\ fuse_dense[1] # fuse_dense[2]
  /\ fuse_dense[2] = fuse_bm25[1]
  /\ fuse_top_k = 1
  /\ Len(Value(fuse_out)) = 1
  /\ Value(fuse_out)[1].doc_id = DocId(fuse_bm25[1])
  /\ Value(fuse_out)[1].score = <<3, 4>>

---------------------------------------------------------------------------
(* Claims about HierarchicalRetriever.retrieve, checked under Spec         *)

TableCorpusEmpty == ~table_data.has_sentences \/ Len(table_data.sentences) = 0
TextCorpusEmpty  == Len(text_data.chunks) = 0

\* The retrieve call has ended, by a return or by an exception.
Ended == pc \in {"done", "raised"}

\* Stage B of the call has ended, by the return or by an exception.
StageBEnded == pc = "done" \/ (pc = "raised" /\ dense_hits # <<>>)

StageBCorpusEmpty ==
  IF Value(call).is_table_centric THEN TableCorpusEmpty /\ TextCorpusEmpty
  ELSE TextCorpusEmpty

\* C2: retrieval over empty corpora returns an empty content list and never
\* raises.
C2_EmptyCorpusEmptyContent ==
  (StageBEnded /\ StageBCorpusEmpty) => (pc = "done" /\ content = <<>>)

\* The results of the hits that lie inside the corpus, in the order of the hits.
RECURSIVE InRangeResults(_, _, _)
InRangeResults(hits, documents, metadata) ==
  IF hits = <<>> THEN <<>>
  ELSE LET h == Head(hits)
           rest == InRangeResults(Tail(hits), documents, metadata)
       IN  IF 0 <= h.idx /\ h.idx < Len(documents)
           THEN << [content |-> documents[h.idx + 1],
                    metadata |-> metadata[h.idx + 1],
                    score |-> Rat(1, 1 + h.dist)] >> \o rest
           ELSE rest

SearchedTables == Value(call).is_table_centric /\ ~TableCorpusEmpty

\* C3: in the section, table and text search an index position outside the
\* bounds of the content array (negative, as the -1 of a missing neighbour,
\* or >= its length) is skipped: it gives no result entry, selects no other
\* entry and raises nothing.
C3_OutOfRangeSkipped ==
  /\ pc \in {"stageB", "done", "raised"} =>
       /\ pc = "raised" => dense_hits # <<>>
       /\ Len(sections) =
            Cardinality({ i \in 1..Len(section_hits) :
                            0 <= section_hits[i].idx
                            /\ section_hits[i].idx < Len(section_data.abstracts) })
  /\ StageBEnded =>
       /\ error = "none"
       /\ compiled = IF SearchedTables
                     THEN InRangeResults(dense_hits, table_data.sentences,
                                         table_data.metadata)
                     ELSE InRangeResults(dense_hits, text_data.chunks,
                                         text_data.metadata)

\* C4: the content list of every retrieve call that returns, hybrid or not,
\* on the table and on the text branch, has at most top_k_content items, in
\* non-increasing order of score.
C4_TruncatedAndDescending ==
  pc = "done" =>
    /\ Len(content) <= Value(call).top_k_content
    /\ NonIncreasing(content)

\* A hybrid call has fused three candidates and returned the best two of
\* them, of different scores.
C4_Witness ==
  /\ pc = "done" /\ Value(call).use_hybrid
  /\ table_data.bm25 = "built" /\ SearchedTables
  /\ Value(call).top_k_content = 2
  /\ Cardinality({ ContentKey(compiled[i].content) : i \in 1..Len(compiled) }) = 3
  /\ Len(content) = 2
  /\ RatLess(content[2].score, content[1].score)

---------------------------------------------------------------------------
(* Claims about MathVerifier, checked under VerifierSpec, MatchSpec and    *)
(* ExtractSpec                                                             *)

\* A text from which the pattern extracts a number: every digit starts or
\* continues a match, and no match is without a digit.
HasDigit(s) == \E i \in 1..Len(s) : IsDigit(s[i])

VerifyReturned == status # "none"

\* C11: verify returns 'no_numbers' whenever no number can be extracted from
\* the answer, whatever the query and the evidence are, and 'verified' or
\* 'failed' whenever the answer holds a number.
C11_NoNumbersIffNoAnswerNumber ==
  VerifyReturned =>
    IF HasDigit(answer)
    THEN status \in { "verified", "failed" }
    ELSE status = "no_numbers"

\* An answer without a number met table evidence with numbers, under a query
\* that asks for a difference.
C11_Witness ==
  /\ status = "no_numbers" /\ ~HasDigit(answer)
  /\ evidence_numbers # <<>>
  /\ AnyKeywordIn(difference_keywords, Lower(verify_query))

\* s holds w as a word of its own, between spaces or the ends of s.
OccursAsWord(w, s) ==
  \E i \in 1..(Len(s) - Len(w) + 1) :
    /\ SubSeq(s, i, i + Len(w) - 1) = w
    /\ (i = 1 \/ s[i - 1] = " ")
    /\ (i + Len(w) - 1 = Len(s) \/ s[i + Len(w)] = " ")

InQueryOrAnswer(keywords) ==
  \/ AnyKeywordIn(keywords, Lower(verify_query))
  \/ AnyKeywordIn(keywords, Lower(answer))

RatioWordInQueryOrAnswer ==
  \E s \in { Lower(verify_query), Lower(answer) } :
    \/ IsSubstring(ratio_keywords[1], s)
    \/ IsSubstring(ratio_keywords[2], s)
    \/ OccursAsWord(ratio_keywords[3], s)

\* The calculation type by the priority order over the words of the query
\* and of the answer.
TypeByPriority ==
  IF InQueryOrAnswer(difference_keywords) THEN "difference"
  ELSE IF RatioWordInQueryOrAnswer THEN "ratio"
  ELSE IF InQueryOrAnswer(percentage_keywords) THEN "percentage"
  ELSE "lookup"

\* C12: the calculation type follows the words of the query and of the
\* answer in the order difference, ratio/comparison, percent, lookup: a
\* percent-word without a difference or ratio/comparison word gives
\* 'percentage', and a difference-word that is only in the answer gives
\* 'difference'.
C12_TypeFromQueryAndAnswer ==
  status \in { "verified", "failed" } => calc_type = TypeByPriority

\* |a - b| / |b| < tol for b # 0 and |a| < tol for b = 0, over the integers:
\* the first is |an*bd - bn*ad| * td < tn * |bn| * ad.
WithinTolerance(a, b, tol) ==
  IF b[1] = 0
  THEN Abs(a[1]) * tol[2] < tol[1] * a[2]
  ELSE Abs(a[1] * b[2] - b[1] * a[2]) * tol[2] < tol[1] * Abs(b[1]) * a[2]

Decided(type) == status \in { "verified", "failed" } /\ calc_type = type

EvidencePositions == 1..Len(evidence_numbers)

\* C13: for 'difference' the verdict is 'verified' exactly when the first
\* answer number matches |e_i - e_j| for two evidence numbers at distinct
\* positions; later answer numbers have no say, and fewer than 2 evidence
\* numbers give 'failed'.
C13_DifferenceVerdict ==
  Decided("difference") =>
    /\ status = "verified" <=>
         \E i, j \in EvidencePositions :
           /\ i # j
           /\ WithinTolerance(answer_numbers[1],
                              RatAbs(RatSub(evidence_numbers[i],
                                            evidence_numbers[j])),
                              Value(tolerance))
    /\ Len(evidence_numbers) < 2 => status = "failed"

\* A difference was verified on the first answer number while the second
\* answer number matches no evidence number and no difference of two.
C13_Witness ==
  /\ Decided("difference") /\ status = "verified"
  /\ Len(answer_numbers) = 2
  /\ \A i, j \in EvidencePositions :
       /\ ~WithinTolerance(answer_numbers[2], evidence_numbers[i],
                           Value(tolerance))
       /\ ~WithinTolerance(answer_numbers[2],
                           RatAbs(RatSub(evidence_numbers[i],
                                         evidence_numbers[j])),
                           Value(tolerance))

\* C14: for 'ratio' the verdict is 'verified' exactly when the first answer
\* number matches e_i / e_j for an ordered pair of evidence numbers with
\* i # j and e_j # 0; a pair with denominator 0 is passed over and the call
\* returns a verdict.
C14_RatioVerdict ==
  /\ Decided("ratio") =>
       (status = "verified" <=>
          \E i, j \in EvidencePositions :
            /\ i # j /\ evidence_numbers[j][1] # 0
            /\ WithinTolerance(answer_numbers[1],
                               RatDiv(evidence_numbers[i], evidence_numbers[j]),
                               Value(tolerance)))
  /\ (VerifyReturned /\ HasDigit(answer)
        /\ AnyKeywordIn(ratio_keywords, Lower(verify_query)))
       => status \in { "verified", "failed" }

\* A ratio was verified over evidence that holds a 0, by a pair whose
\* numerator is the later number.
C14_Witness ==
  /\ Decided("ratio") /\ status = "verified"
  /\ \E k \in EvidencePositions : evidence_numbers[k] = RatZero
  /\ \E i, j \in EvidencePositions :
       /\ j < i /\ evidence_numbers[j][1] # 0
       /\ WithinTolerance(answer_numbers[1],
                          RatDiv(evidence_numbers[i], evidence_numbers[j]),
                          Value(tolerance))

\* C15: for 'percentage' the verdict is 'verified' exactly when the first
\* answer number matches ((e_i - e_j) / e_j) * 100 for an ordered pair of
\* evidence numbers with i # j and e_j # 0; a pair with denominator 0 is
\* passed over and the call returns a verdict.
C15_PercentageVerdict ==
  /\ Decided("percentage") =>
       (status = "verified" <=>
          \E i, j \in EvidencePositions :
            /\ i # j /\ evidence_numbers[j][1] # 0
            /\ WithinTolerance(
                 answer_numbers[1],
                 RatMul(RatDiv(RatSub(evidence_numbers[i], evidence_numbers[j]),
                               evidence_numbers[j]),
                        << 100, 1 >>),
                 Value(tolerance)))
  /\ (VerifyReturned /\ HasDigit(answer) /\ calc_type = "percentage")
       => status \in { "verified", "failed" }

\* A percentage change of 50 was verified over evidence that holds a 0.
C15_Witness ==
  /\ Decided("percentage") /\ status = "verified"
  /\ answer_numbers[1] = << 50, 1 >>
  /\ \E k \in EvidencePositions : evidence_numbers[k] = RatZero

\* C16: for 'lookup' the verdict is 'verified' exactly when every answer
\* number matches at least one evidence number; one answer number without a
\* match, or no evidence number at all, gives 'failed'.
C16_LookupVerdict ==
  Decided("lookup") =>
    /\ status = "verified" <=>
         \A a \in 1..Len(answer_numbers) :
           \E e \in EvidencePositions :
             WithinTolerance(answer_numbers[a], evidence_numbers[e],
                             Value(tolerance))
    /\ evidence_numbers = <<>> => status = "failed"

\* The answer number 100 was verified against the evidence number 100.5
\* at the default tolerance of 1%.
C16_Witness ==
  /\ Decided("lookup") /\ status = "verified"
  /\ tolerance = Some(<< 1, 100 >>)
  /\ answer_numbers = << << 100, 1 >> >>
  /\ evidence_numbers = << << 201, 2 >> >>

\* C17: _numbers_match(a, b) is true exactly when |a - b| / |b| < tol for
\* b # 0 and exactly when |a| < tol for b = 0: strict, relative to the second
\* argument, and with a result for every pair.
C17_NumbersMatch ==
  matched # Nothing =>
    /\ Value(matched) \in BOOLEAN
    /\ Value(matched) = WithinTolerance(arg_num1, arg_num2, Value(tolerance))

\* 99 against 100 at the default tolerance: the relative difference is
\* the tolerance itself, and the numbers do not match.
C17_Witness ==
  /\ matched = Some(FALSE)
  /\ tolerance = Some(<< 1, 100 >>)
  /\ arg_num1 = << 99, 1 >> /\ arg_num2 = << 100, 1 >>

\* The multiplier of a unit, whatever its letter case.
UnitMultiplier(unit) ==
  IF Lower(unit) \in { << "m" >>, million } THEN 1000000
  ELSE IF Lower(unit) \in { << "b" >>, billion } THEN 1000000000
  ELSE IF Lower(unit) = thousand THEN 1000
  ELSE 1

IsUnit(unit) ==
  unit = <<>> \/ Lower(unit) \in { << "m" >>, million, << "b" >>, billion, thousand }

\* C18: extract_numbers applies the multiplier of the unit that follows a
\* number, in any letter case: M or million 1e6, B or billion 1e9,
\* thousand 1e3, and no unit leaves the value as it is.
C18_UnitsInAnyCase ==
  (/\ numbers # Nothing
   /\ extract_text # <<>>
   /\ IsDigit(extract_text[1])
   /\ IsUnit(Tail(extract_text)))
    => Value(numbers) =
         << << DigitValue(extract_text[1]) * UnitMultiplier(Tail(extract_text)),
               1 >> >>

IsTablePiece(ev) == ev.metadata.content_type = "table"

\* C19: the evidence number list is made, in the order of the evidence, of
\* the numbers of exactly the pieces whose content_type is 'table', by the
\* extraction used for the answer; evidence without a table piece never
\* gives 'verified'.
C19_TableEvidenceOnly ==
  VerifyReturned =>
    LET tables == SelectSeq(evidence, IsTablePiece)
    IN  /\ evidence_numbers =
             Concat([i \in 1..Len(tables) |-> ExtractNumbers(tables[i].content)])
        /\ tables = <<>> => status # "verified"

\* The only answer number is in a text piece that comes before a table
\* piece with other numbers, and the verdict is 'failed'.
C19_Witness ==
  /\ Decided("lookup") /\ status = "failed"
  /\ Len(evidence) = 2
  /\ ~IsTablePiece(evidence[1]) /\ IsTablePiece(evidence[2])
  /\ Len(answer_numbers) = 1
  /\ \E n \in Range(ExtractNumbers(evidence[1].content)) :
       WithinTolerance(answer_numbers[1], n, Value(tolerance))
  /\ evidence_numbers = ExtractNumbers(evidence[2].content)
  /\ evidence_numbers # <<>>

---------------------------------------------------------------------------
(* Claims about IndexBuilder, checked under BuilderSpec                    *)

BuildEnded == faiss_index # Nothing \/ build_error # "none"

\* C20: building a dense index of a kind other than flat, ivf or hnsw fails
\* with a ConfigError, and no index is produced.
C20_UnknownKindConfigError ==
  (BuildEnded /\ index_type \notin { "flat", "ivf", "hnsw" })
    => (build_error = "ConfigError" /\ faiss_index = Nothing)

---------------------------------------------------------------------------
(* Claims about the order of the stages of retrieve, checked under Spec    *)

\* C26: within one retrieve call stage A (the section search and the
\* assembly of its results) is complete before a stage-B search begins, and
\* a stage A that raises is followed by no stage-B search: stage B is entered
\* from stage A only, without an exception and with the section results
\* assembled; the hits, the compiled list and the content of stage B change
\* in a step of stage B only; and a call that raised takes no further step.
C26_StageABeforeStageB ==
  [][ /\ pc' = "stageB" =>
           /\ pc = "stageA" /\ error' = "none"
           /\ Len(sections') = Len(section_hits')
           /\ section_hits' # <<>>
      /\ (dense_hits' # dense_hits \/ compiled' # compiled \/ content' # content)
           => pc = "stageB"
      /\ (pc = "stageA" /\ pc' = "raised")
           => (dense_hits' = <<>> /\ compiled' = <<>> /\ content' = <<>>)
      /\ pc = "raised" => pc' = "raised" ]_vars

\* Stage A has raised and no stage-B search has run.
C26_Witness ==
  /\ pc = "raised" /\ error = "IndexError"
  /\ section_hits # <<>>
  /\ dense_hits = <<>> /\ content = <<>>
  /\ encodes = 1

\* C27: within one retrieve call embedding_model.encode is invoked exactly
\* one time, on the text branch, the table branch and the table branch that
\* falls back to text.
C27_EncodedOnce ==
  pc = "done" => encodes = 1

---------------------------------------------------------------------------
(* Claims about two retrieve calls in a row, checked under TwoCallSpec     *)

BothReturned == pc = "done" /\ prev_call # Nothing

\* The corpus stage B of the call searched.
SearchedCorpus ==
  IF SearchedTables
  THEN [documents |-> table_data.sentences, bm25 |-> table_data.bm25]
  ELSE [documents |-> text_data.chunks, bm25 |-> text_data.bm25]

\* The lexical search has one answer: it did not run, or no two documents of
\* the corpus have the same lexical score.
LexicalOrderFixed ==
  (Value(call).use_hybrid /\ SearchedCorpus.bm25 = "built") =>
    LET scores == Bm25Scores(Value(call).query, SearchedCorpus.documents)
    IN  \A i, j \in 1..Len(scores) : scores[i] = scores[j] => i = j

---------------------------------------------------------------------------
(* Claims about compute_recall_at_k, checked under MetricsSpec             *)

\* C25: for one ranking and one relevant set the recall does not fall as the
\* cutoff k >= 0 grows, and it is 0 when the relevant set is empty.
C25_RecallMonotone ==
  /\ \A r1, r2 \in recall_at :
       r1.k <= r2.k => ~RatLess(r2.value, r1.value)
  /\ metric_relevant = {} => \A r \in recall_at : r.value = RatZero

\* The recall of a ranking that repeats an item has been computed at every
\* cutoff, and it grew from 0 to 1 on the way.
C25_Witness ==
  /\ Cardinality(recall_at) = MaxCutoff + 1
  /\ Len(metric_retrieved) = 3
  /\ metric_retrieved[1] = metric_retrieved[2]
  /\ \E r \in recall_at : r.k = 0 /\ r.value = RatZero
  /\ \E r \in recall_at : r.k = 1 /\ r.value = << 1, 2 >>
  /\ \E r \in recall_at : r.k = 2 /\ r.value = << 1, 2 >>
  /\ \E r \in recall_at : r.k = 3 /\ r.value = RatOne

---------------------------------------------------------------------------
(* Claims about AnswerGenerator, checked under GeneratorSpec               *)

\* The call of the backend failed: it raised (a timeout included), it
\* answered with a status other than 200 or with a body that is no JSON, or
\* there is no model to call.
BackendFailed ==
  \/ Value(backend_reply).kind \in { "exception", "bad_json", "unloaded" }
  \/ (backend = "ollama" /\ Value(backend_reply).status # 200)

\* C24: a failure or timeout of the answer generator reaches the caller of
\* generate as a typed failure that names the stage; generate never returns
\* a normal {answer, confidence} result when the backend call failed.
C24_BackendFailurePropagated ==
  (gen_result # Nothing /\ BackendFailed) =>
    /\ Value(gen_result).kind = "raised"
    /\ Value(gen_result).error = "ExternalFailure"

---------------------------------------------------------------------------
(* Claims about TextChunker.chunk_text, checked under ChunkerFairSpec and  *)
(* ChunkerSpec                                                             *)

HasWord == ~(chunk_input = <<>> \/ Blank(chunk_input))

\* C29: on a text with at least one word chunk_text returns if and only if
\* chunk_size > chunk_overlap: with chunk_size > chunk_overlap the call
\* always returns; with chunk_overlap >= chunk_size the start index stays
\* before the end of the words and the call never returns. On a blank text
\* the call always returns, and returns the empty list.
C29_TerminatesIff ==
  /\ [](HasWord /\ chunk_size > chunk_overlap => <>(chunk_pc = "done"))
  /\ [](HasWord /\ chunk_overlap >= chunk_size =>
          /\ chunk_pc # "done"
          /\ (chunk_pc = "loop" => start_idx < Len(words)))
  /\ [](chunk_pc # "ready" /\ ~HasWord => <>(chunk_pc = "done"))
  /\ [](~HasWord /\ chunk_pc = "done" => chunks_out = <<>>)

C29_Witness ==
  /\ chunk_pc = "done"
  /\ chunk_size > chunk_overlap
  /\ chunk_overlap > 0
  /\ Len(chunks_out) >= 3

\* C30: with chunk_size > chunk_overlap, every word position of the text
\* lies in [start_word_idx, end_word_idx) of a returned chunk.
C30_NoWordLost ==
  (chunk_pc = "done" /\ chunk_size > chunk_overlap) =>
    \A p \in 0..(Len(SplitWords(chunk_input)) - 1) :
      \E i \in 1..Len(chunks_out) :
        /\ chunks_out[i].start_word_idx <= p
        /\ p < chunks_out[i].end_word_idx

---------------------------------------------------------------------------
(* Claims about the index store, checked under StoreSpec                   *)

\* The versions a retrieve call can observe: the published one and the one
\* a call in progress was made on.
Observable ==
  (IF current = 0 THEN {} ELSE { current })
    \cup (IF reader = Nothing THEN {} ELSE { Value(reader).self })

FullyConstructed(idx, docs) ==
  /\ idx.trained
  /\ Len(idx.vectors) = Len(docs)

===========================================================================
